---- MODULE Spec2Model ----
(***************************************************************************)
(* A model of the RedGlacier notebooks.                                    *)
(*                                                                         *)
(*  - the three tile loops (elevation "DEM", glacier "RGI", coastline      *)
(*    "GSHHS"): tile enumeration over the imagery catalog, then, per tile, *)
(*    source lookup, acquisition, transform and upload;                    *)
(*  - the two catalog-editing notebooks (link-fixup "relink", sensor-array *)
(*    assets "sensor"): a loop over the items, then normalize_and_save,    *)
(*    the catalog read back and the loop run once more;                    *)
(*  - the shadow-catalog notebook ("shadow"): a loop over the L1C scenes    *)
(*    that pairs each with its L2A item, then the save of the output.      *)
(*                                                                         *)
(* Geometry is discrete: a geometry is a set of unit cells <<x, y>>, a     *)
(* raster is a grid of such cells, and two geometries intersect when they  *)
(* share a cell.  A change of coordinate reference system moves the cells  *)
(* (a shear), so that a geometry and its reprojection differ and the       *)
(* bounding box of a reprojected rectangle is larger than the rectangle.   *)
(***************************************************************************)
EXTENDS Integers, Sequences, FiniteSets, TLC

VARIABLES
    nb,             \* the notebook that runs
    items,          \* subcatalog.get_all_items(): the collection, in order
    index,          \* the source index (dem_index / rgi_index / gshhs)
    pc,             \* position of the notebook
    ei,             \* enumeration loop: number of items already visited
    tiles,          \* the dict `tiles`: tile_id -> item
    order,          \* insertion order of the keys of `tiles`
    ti,             \* tile loop: position in `order` of the current tile
    tile_geometry,  \* footprint built for the current tile, with its CRS
    queried,        \* the index as passed to the lookup of the current tile
    matches,        \* lookup result (urls / rgi_codes / gshhs_sub)
    rgi_region_path,\* the region archive selected for the current tile
    local,          \* files downloaded into the scratch directory
    tmpdir,         \* scratch directories: those alive, and how many were made
    raster,         \* raster produced for the current tile
    remote,         \* the tile store: set of [path, raster]
    log,            \* history of the steps taken: [step, tile]
    err,            \* the exception that stopped the notebook
    catalog,        \* catalog-editing notebooks: the in-memory catalog
    stored,         \* catalog-editing notebooks: the catalog on storage
    ci,             \* catalog-editing notebooks: items already processed
    saves,          \* catalog-editing notebooks: normalize_and_save calls
    catalog_l2a,    \* shadow-catalog notebook: the items of the L2A catalog
    out_items,      \* shadow-catalog notebook: the list of output items
    pass,           \* catalog-editing notebooks: which run of the loop
    first_run       \* catalog-editing notebooks: the catalog as the first
                    \* run of the loop left it

tileVars == <<nb, items, index, pc, ei, tiles, order, ti, tile_geometry,
              queried, matches, rgi_region_path, local, tmpdir, raster,
              remote, log, err>>
editVars == <<catalog, stored, ci, saves>>
shadowVars == <<catalog_l2a, out_items>>
runVars == <<pass, first_run>>
vars == <<nb, items, index, pc, ei, tiles, order, ti, tile_geometry,
          queried, matches, rgi_region_path, local, tmpdir, raster, remote,
          log, err, catalog, stored, ci, saves, catalog_l2a, out_items,
          pass, first_run>>

\* Largest number of items in a collection.
MaxItems == 3

\* Largest number of runs of the loop of a catalog-editing notebook.
MaxRuns == 2

None == "None"

(***************************************************************************)
(* Geometry and coordinate reference systems                               *)
(***************************************************************************)

\* The CRS of the imagery tiles (da.spatial_ref.crs_wkt).
TileCRS == "EPSG:32605"

\* shapely Polygon.from_bounds(xmin, ymin, xmax, ymax)
FromBounds(b) ==
    {<<x, y>> : x \in b[1]..(b[3] - 1), y \in b[2]..(b[4] - 1)}

SetMin(S) == CHOOSE m \in S : \A n \in S : m <= n
SetMax(S) == CHOOSE m \in S : \A n \in S : m >= n

\* Bounding box (xmin, ymin, xmax, ymax) of a non-empty geometry.
Bounds(g) ==
    <<SetMin({c[1] : c \in g}), SetMin({c[2] : c \in g}),
      SetMax({c[1] : c \in g}) + 1, SetMax({c[2] : c \in g}) + 1>>

\* Reprojection of a geometry from CRS src to CRS dst.
Reproject(g, src, dst) ==
    IF src = dst THEN g
    ELSE IF src = TileCRS THEN {<<c[1] + c[2], c[2]>> : c \in g}
    ELSE {<<c[1] - c[2], c[2]>> : c \in g}

\* shapely / geopandas `intersects`: non-empty intersection.
Intersects(g, h) == g \cap h # {}

\* da.rio.bounds(): from the affine transform and the pixel size.
RioBounds(da) == <<da.x0, da.y0, da.x0 + da.width, da.y0 + da.height>>

\* da.rio.transform_bounds(dst_crs): bounding box of the reprojected bounds.
TransformBounds(da, dst) ==
    Bounds(Reproject(FromBounds(RioBounds(da)), da.crs, dst))

\* GeoDataFrame.to_crs(crs)
ToCrs(idx, crs) ==
    [idx EXCEPT
        !.crs = crs,
        !.rows = [i \in DOMAIN idx.rows |->
                    [idx.rows[i] EXCEPT
                        !.geometry = Reproject(@, idx.crs, crs)]]]

(***************************************************************************)
(* Inputs: the imagery catalog and the source indices                      *)
(***************************************************************************)

Notebooks == {"DEM", "RGI", "GSHHS"}

\* The B02 asset of the items of the two tiles of the model.
AssetG == [x0 |-> 0, y0 |-> 0, width |-> 2, height |-> 2, crs |-> TileCRS]
AssetH == [x0 |-> 2, y0 |-> 0, width |-> 2, height |-> 2, crs |-> TileCRS]
AssetJ == [x0 |-> 4, y0 |-> 0, width |-> 2, height |-> 2, crs |-> TileCRS]

\* The items a collection is drawn from: two scenes of tile 5VMG, one of
\* tile 5VMH and one of tile 6VMG.
ItemKinds ==
    { [id |-> "S2A_5VMG_20210329_0_L1C", utm_zone |-> 5,
       latitude_band |-> "V", grid_square |-> "MG", B02 |-> AssetG],
      [id |-> "S2B_5VMG_20210403_0_L1C", utm_zone |-> 5,
       latitude_band |-> "V", grid_square |-> "MG", B02 |-> AssetG],
      [id |-> "S2A_5VMH_20210329_0_L1C", utm_zone |-> 5,
       latitude_band |-> "V", grid_square |-> "MH", B02 |-> AssetH],
      [id |-> "S2A_6VMG_20210330_0_L1C", utm_zone |-> 6,
       latitude_band |-> "V", grid_square |-> "MG", B02 |-> AssetJ] }

\* Sequences without repetition (item ids are unique in a collection).
InjSeqs(S, n) ==
    UNION {{s \in [1..k -> S] : \A i, j \in 1..k : i # j => s[i] # s[j]} :
           k \in 0..n}

\* The rows an index is drawn from, in the CRS of the index.  Row 1 holds
\* the (reprojected) footprint of tile 5VMG, row 2 that of the other tile,
\* row 3 lies in a corner of the bounding box of reprojected tile 5VMG
\* that the reprojected footprint itself does not cover.
IndexRows ==
    << [geometry |-> FromBounds(<<0, 0, 3, 2>>), RGI_CODE |-> 1,
        fileurl |-> "http://data.pgc.umn.edu/10_27_10m_v3.0.tar.gz"],
       [geometry |-> FromBounds(<<2, 0, 5, 2>>), RGI_CODE |-> 2,
        fileurl |-> "http://data.pgc.umn.edu/10_28_10m_v3.0.tar.gz"],
       [geometry |-> FromBounds(<<0, 1, 1, 2>>), RGI_CODE |-> 3,
        fileurl |-> "http://data.pgc.umn.edu/11_27_10m_v3.0.tar.gz"] >>

SubSeq3(keep) == SelectSeq(IndexRows, LAMBDA r : r.RGI_CODE \in keep)

IndexCRS(n) == IF n = "DEM" THEN "EPSG:3413" ELSE "EPSG:4326"

\* An index: its CRS, its rows, and (elevation) the pixel size of its
\* rasters in units of the index CRS.
Indices(n) ==
    {[crs |-> IndexCRS(n), rows |-> SubSeq3(keep), res |-> r] :
        keep \in SUBSET {1, 2, 3}, r \in IF n = "DEM" THEN {1, 2} ELSE {1}}

(***************************************************************************)
(* Tile enumeration                                                        *)
(***************************************************************************)

\* Mutant of get_sentinel2_tile_id: the UTM zone is left out of the ID.
get_sentinel2_tile_id_cell(item) ==
    item.latitude_band \o item.grid_square

\* get_sentinel2_tile_id: "".join(str(item.properties[k]) for k in
\* TILE_ID_KEYS)
get_sentinel2_tile_id(item) ==
    ToString(item.utm_zone) \o item.latitude_band \o item.grid_square

\* Mutant of TilesPut: tiles[tile_id] = item, whether the key is there or
\* not.
TilesPutOverwrite(t, tile_id, item) ==
    [k \in DOMAIN t \cup {tile_id} |-> IF k = tile_id THEN item ELSE t[k]]

\* if tile_id not in tiles: tiles[tile_id] = item
TilesPut(t, tile_id, item) ==
    IF tile_id \in DOMAIN t THEN t
    ELSE [k \in DOMAIN t \cup {tile_id} |->
            IF k = tile_id THEN item ELSE t[k]]

\* One iteration of `for item in subcatalog.get_all_items()`.
EnumerateItem ==
    /\ pc = "enum"
    /\ ei < Len(items)
    /\ LET item == items[ei + 1]
           tile_id == get_sentinel2_tile_id(item)
       IN /\ tiles' = TilesPut(tiles, tile_id, item)
          /\ order' = IF tile_id \in DOMAIN tiles THEN order
                      ELSE Append(order, tile_id)
    /\ ei' = ei + 1
    /\ UNCHANGED <<nb, items, index, pc, ti, tile_geometry, queried, matches,
                   rgi_region_path, local, tmpdir, raster, remote, log, err>>
    /\ UNCHANGED editVars
    /\ UNCHANGED shadowVars
    /\ UNCHANGED runVars

(***************************************************************************)
(* The tile loops                                                          *)
(***************************************************************************)

\* Remote paths of the three tile stores.
TilesUrl(n) ==
    IF n = "DEM" THEN "https://webdav/disk/ArcticDEM_tiles_sentinel-2"
    ELSE IF n = "RGI" THEN "https://webdav/disk/RasterRGI_tiles_sentinel-2"
    ELSE "https://webdav/disk/RasterGSHHS_tiles_sentinel-2"

\* Mutant of UploadPath: one output file name for every tile.
UploadPathFixed(n, tile_id) == TilesUrl(n) \o "/" \o "tile.tif"

\* f"{tiles_url}/{output_file}" with output_file = f"{tile_id}.tif"
UploadPath(n, tile_id) == TilesUrl(n) \o "/" \o tile_id \o ".tif"

\* The region archives on the storage (dcache.glob target), with the cells
\* (index CRS) of the glacier outlines each holds.  Region 3 has no archive.
RegionArchives ==
    { [name |-> "01_rgi60_Alaska.zip", outlines |-> {<<1, 0>>, <<1, 1>>}],
      [name |-> "02_rgi60_WesternCanadaUS.zip", outlines |-> {<<3, 0>>}] }

\* f"{rgi_code:02d}"
Format02d(n) == IF n < 10 THEN "0" \o ToString(n) ELSE ToString(n)

\* dcache.glob(f"{rgi_root_url}/{rgi_code:02d}_rgi60_*.zip")
GlobRegion(rgi_code) ==
    {a \in RegionArchives :
        \E rest \in {"Alaska.zip", "WesternCanadaUS.zip"} :
            a.name = Format02d(rgi_code) \o "_rgi60_" \o rest}

\* Mutant of IndexMask: the rows that contain the geometry.
IndexMaskContains(idx, geometry) ==
    SelectSeq(idx.rows, LAMBDA r : geometry \subseteq r.geometry)

\* mask = index.intersects(geometry); index = index[mask]
IndexMask(idx, geometry) ==
    SelectSeq(idx.rows, LAMBDA r : Intersects(r.geometry, geometry))

\* get_itersecting_DEM_tile_URLs(index, geometry): index[mask].fileurl
get_itersecting_DEM_tile_URLs(idx, geometry) ==
    LET sel == IndexMask(idx, geometry)
    IN [i \in 1..Len(sel) |-> sel[i].fileurl]

\* get_itersecting_RGI_regions(index, geometry): index[mask].RGI_CODE
get_itersecting_RGI_regions(idx, geometry) ==
    LET sel == IndexMask(idx, geometry)
    IN [i \in 1..Len(sel) |-> sel[i].RGI_CODE]

\* The footprint the loop of notebook n builds for asset da, with the CRS
\* its coordinates are in.
\*   DEM:         Polygon.from_bounds(*bbox)
\*   RGI, GSHHS:  Polygon.from_bounds(*da.rio.transform_bounds(index.crs))
TileGeometry(n, da, idx) ==
    IF n = "DEM"
    THEN [cells |-> FromBounds(RioBounds(da)), crs |-> da.crs]
    ELSE [cells |-> FromBounds(TransformBounds(da, idx.crs)),
          crs |-> idx.crs]

\* Mutant of QueriedIndex: every loop passes the index as it was read.
QueriedIndexOwn(n, da, idx) == idx

\* The index the loop of notebook n passes to the lookup.
\*   DEM:         dem_index.to_crs(crs)
\*   RGI, GSHHS:  the index itself
QueriedIndex(n, da, idx) ==
    IF n = "DEM" THEN ToCrs(idx, da.crs) ELSE idx

\* The lookup of notebook n.
Lookup(n, idx, geometry) ==
    IF n = "DEM" THEN get_itersecting_DEM_tile_URLs(idx, geometry)
    ELSE IF n = "RGI" THEN get_itersecting_RGI_regions(idx, geometry)
    ELSE IndexMask(idx, geometry)

\* Mutants of AssertOneRegion: len(rgi_codes) >= 1, len(rgi_codes) <= 1, and
\* no assertion.
AssertAtLeastOneRegion(rgi_codes) == Len(rgi_codes) >= 1
AssertAtMostOneRegion(rgi_codes) == Len(rgi_codes) <= 1
AssertNothing(rgi_codes) == TRUE

\* assert len(rgi_codes) == 1, "Only one RGI region implemented!"
AssertOneRegion(rgi_codes) == Len(rgi_codes) = 1

\* Mutant of Abort: the failure is caught and the loop goes on with the
\* next tile.
AbortSkip(i) ==
    [pc |-> IF i < Len(order) THEN "lookup" ELSE "done", ti |-> i + 1]

\* An exception raised inside the loop body is not caught: it leaves the
\* loop.  The position the notebook is in after a failure at tile ti.
Abort(i) == [pc |-> "failed", ti |-> i]

\* The next position after tile i has been uploaded.
NextTile(i) ==
    [pc |-> IF i < Len(order) THEN "lookup" ELSE "done", ti |-> i + 1]

Event(step) == [step |-> step, tile |-> order[ti]]

(***************************************************************************)
(* Transforms                                                              *)
(***************************************************************************)

\* The cells of the grid of asset da.
TileCells(da) == FromBounds(RioBounds(da))

CeilDiv(a, b) == (a + b - 1) \div b

\* rioxarray.merge.merge_arrays(dem_tiles): one raster over the bounds of
\* the rasters of `files`, in their CRS and with their pixel size.
MergeArrays(idx, files) ==
    LET rows == {idx.rows[i] : i \in {j \in DOMAIN idx.rows :
                                        idx.rows[j].fileurl \in files}}
        merged == UNION {r.geometry : r \in rows}
        b == Bounds(merged)
    IN [crs |-> idx.crs, cells |-> merged,
        height |-> CeilDiv(b[4] - b[2], idx.res),
        width |-> CeilDiv(b[3] - b[1], idx.res)]

\* dem.rio.reproject(crs, transform=transform): a grid at the origin of the
\* tile with the number of rows and columns of `dem`.
RioReproject(dem, da) ==
    LET grid == FromBounds(<<da.x0, da.y0,
                             da.x0 + dem.width, da.y0 + dem.height>>)
    IN [grid |-> grid,
        data |-> grid \cap Reproject(dem.cells, dem.crs, da.crs)]

\* dem_reproj.rio.clip_box(*bbox)
ClipBox(dem_reproj, bbox) ==
    LET keep == dem_reproj.grid \cap FromBounds(bbox)
        kb == Bounds(keep)
    IN [x0 |-> kb[1], y0 |-> kb[2],
        width |-> kb[3] - kb[1], height |-> kb[4] - kb[2],
        data |-> keep \cap dem_reproj.data]

\* download_and_mosaic, after the downloads: merge_arrays of the rasters in
\* the scratch directory, reproject(crs, transform=transform), clip_box.
\* `files` are the archives downloaded (a non-empty set).  reproject is given
\* the target transform and no shape: the reprojected grid starts at the
\* tile's origin with the tile's pixel size and keeps the number of rows and
\* columns of the merged raster.
DemRaster(da, idx, files) ==
    ClipBox(RioReproject(MergeArrays(idx, files), da), RioBounds(da))

\* ll2utm(shapefile, shapefile_utm, crs); shape2raster(shapefile_utm,
\* tile_id, transform.to_gdal(), da.y.size, da.x.size)
RgiRaster(da, idx, archive) ==
    [x0 |-> da.x0, y0 |-> da.y0, width |-> da.width, height |-> da.height,
     data |-> TileCells(da) \cap Reproject(archive.outlines, idx.crs, da.crs)]

\* Mutant of GshhsRaster: the clipped geometries are burned without to_crs.
GshhsRasterAsRead(da, idx, sub, geometry) ==
    LET res == {sub[i].geometry \cap geometry : i \in DOMAIN sub}
    IN [x0 |-> da.x0, y0 |-> da.y0,
        width |-> da.width, height |-> da.height,
        data |-> TileCells(da) \cap UNION res]

\* res = gshhs_sub.intersection(tile_geometry);
\* res.to_crs(crs).unary_union; shape2raster(..., aoi="land")
GshhsRaster(da, idx, sub, geometry) ==
    LET res == {sub[i].geometry \cap geometry : i \in DOMAIN sub}
    IN [x0 |-> da.x0, y0 |-> da.y0,
        width |-> da.width, height |-> da.height,
        data |-> TileCells(da) \cap Reproject(UNION res, idx.crs, da.crs)]

\* Bounding box and pixel size of a raster.
RasterBounds(r) == <<r.x0, r.y0, r.x0 + r.width, r.y0 + r.height>>
RasterSize(r) == <<r.width, r.height>>

(***************************************************************************)
(* Scratch directories                                                     *)
(***************************************************************************)

\* with tempfile.TemporaryDirectory(dir=tmp_path) as tmpdir: on entry a new
\* directory is made.
MkTemp(t) == [live |-> t.live \cup {t.made + 1}, made |-> t.made + 1]

\* Mutant of ExitTemp: the directory is made with mkdtemp and never removed.
ExitTempKeep(t) == t

\* Leaving the with block, at its end or by an exception: the directory made
\* last is removed with all it holds.
ExitTemp(t) == [live |-> t.live \ {t.made}, made |-> t.made]

\* Mutant of Cleaned: the archives are unpacked in tmp_path itself, which
\* nothing empties.
CleanedNot(files) == files

\* The files of a scratch directory that are left when its with block has
\* ended: the directory is removed with all it holds.
Cleaned(files) == {}

\* Whether the with block of notebook n encloses the whole loop over the
\* tiles (coastline) or lies inside the body of the loop (elevation,
\* glacier).
LoopScratch(n) == n = "GSHHS"

\* The scratch directories after the loop of notebook n has ended or has
\* been left by an exception raised outside a with block of its body.
LeaveLoop(n, t) == IF LoopScratch(n) THEN ExitTemp(t) ELSE t

\* The parts of the coastline shapefile (dcache.glob of gshhs_url with
\* suffix ".*"), downloaded once, and the reprojected shapefile written
\* beside them for each tile.
GshhsParts == {"GSHHS_f_L1.shp", "GSHHS_f_L1.dbf", "GSHHS_f_L1.shx"}
GshhsUtm == {"GSHHS_f_L1_utm.shp"}

(***************************************************************************)
(* Steps of the tile loops                                                 *)
(***************************************************************************)

\* Mutant of CurrentAsset: `da` is read once, for the first tile, and used
\* for every tile.
FirstAsset == tiles[order[1]].B02

\* The asset of the current tile: get_asset(catalog, "B02", item.id, ...)
CurrentAsset == tiles[order[ti]].B02

\* Start of the tile-loop cell.  The coastline notebook first downloads the
\* parts of the coastline shapefile and reads it; the other two notebooks
\* enter the loop directly.
StartTileLoop ==
    /\ pc = "enum"
    /\ ei = Len(items)
    /\ \E ok \in IF LoopScratch(nb) THEN BOOLEAN ELSE {TRUE} :
        IF ok
        THEN /\ pc' = NextTile(0).pc
             /\ ti' = NextTile(0).ti
             /\ IF ~LoopScratch(nb)
                THEN UNCHANGED <<tmpdir, local>>
                ELSE IF NextTile(0).pc = "done"
                THEN /\ tmpdir' = ExitTemp(MkTemp(tmpdir))
                     /\ local' = {}
                ELSE /\ tmpdir' = MkTemp(tmpdir)
                     /\ local' = GshhsParts
             /\ log' = IF LoopScratch(nb)
                       THEN Append(log, [step |-> "acquire", tile |-> None])
                       ELSE log
             /\ UNCHANGED err
        ELSE /\ pc' = "failed"
             /\ err' = "download"
             /\ log' = log \o <<[step |-> "acquire", tile |-> None],
                                [step |-> "fail", tile |-> None]>>
             /\ tmpdir' = ExitTemp(MkTemp(tmpdir))
             /\ local' = {}
             /\ UNCHANGED ti
    /\ UNCHANGED <<nb, items, index, ei, tiles, order, tile_geometry, queried,
                   matches, rgi_region_path, raster, remote>>
    /\ UNCHANGED editVars
    /\ UNCHANGED shadowVars
    /\ UNCHANGED runVars

\* What stops the glacier loop between the lookup and the download:
\*   assert len(rgi_codes) == 1
\*   rgi_code = rgi_codes.iloc[0]
\*   rgi_region_path = dcache.glob(...); rgi_region_path.pop()
RegionOutcome(rgi_codes) ==
    IF ~AssertOneRegion(rgi_codes) THEN "AssertionError"
    ELSE IF Len(rgi_codes) = 0 THEN "IndexError: iloc"
    ELSE IF GlobRegion(rgi_codes[1]) = {} THEN "IndexError: pop"
    ELSE "ok"

\* Mutant of AfterLookup: no loop fetches anything after its lookup.
AfterLookupSkip(n) == "transform"

\* The step that follows a lookup that went well: the elevation and glacier
\* loops fetch the matched files; the coastline loop, which fetched the
\* shapefile before its first iteration, goes on to clip it.
AfterLookup(n) == IF n = "GSHHS" THEN "transform" ELSE "acquire"

\* Source lookup for the current tile: read the asset's grid, build the
\* footprint, query the index; the glacier loop then selects the region
\* archive.
SourceLookup ==
    /\ pc = "lookup"
    /\ \E ok \in BOOLEAN :
        IF ~ok
        THEN \* get_asset fails
             /\ pc' = Abort(ti).pc
             /\ ti' = Abort(ti).ti
             /\ err' = "get_asset"
             /\ log' = Append(log, Event("fail"))
             /\ tmpdir' = LeaveLoop(nb, tmpdir)
             /\ local' = {}
             /\ UNCHANGED <<tile_geometry, queried, matches, rgi_region_path>>
        ELSE LET da == CurrentAsset
                 g == TileGeometry(nb, da, index)
                 q == QueriedIndex(nb, da, index)
                 m == Lookup(nb, q, g.cells)
                 out == IF nb = "RGI" THEN RegionOutcome(m) ELSE "ok"
             IN /\ tile_geometry' = g
                /\ queried' = q
                /\ matches' = m
                /\ IF out = "ok"
                   THEN /\ pc' = AfterLookup(nb)
                        /\ rgi_region_path' =
                             IF nb = "RGI"
                             THEN CHOOSE a \in GlobRegion(m[1]) : TRUE
                             ELSE None
                        /\ log' = Append(log, Event("lookup"))
                        /\ UNCHANGED <<ti, err, tmpdir, local>>
                   ELSE /\ pc' = Abort(ti).pc
                        /\ ti' = Abort(ti).ti
                        /\ err' = out
                        /\ log' = log \o <<Event("lookup"), Event("fail")>>
                        /\ tmpdir' = LeaveLoop(nb, tmpdir)
                        /\ local' = {}
                        /\ UNCHANGED rgi_region_path
    /\ UNCHANGED <<nb, items, index, ei, tiles, order, raster, remote>>
    /\ UNCHANGED editVars
    /\ UNCHANGED shadowVars
    /\ UNCHANGED runVars

\* Mutant of ToFetch: only the first matched file is fetched.
ToFetchFirst ==
    IF nb = "DEM"
    THEN {matches[i] : i \in {j \in DOMAIN matches : j = 1}}
    ELSE {rgi_region_path.name}

\* The files to fetch for the current tile.
\*   DEM:  for url in url_list: get_tar_file(url, tmpdir)
\*   RGI:  dcache.download(remote_path, local_path); extractall
ToFetch ==
    IF nb = "DEM" THEN {matches[i] : i \in DOMAIN matches}
    ELSE {rgi_region_path.name}

\* Acquisition: the scratch directory of the tile is made and the matched
\* files are fetched into it.
Acquire ==
    /\ pc = "acquire"
    /\ \E ok \in IF ToFetch = {} THEN {TRUE} ELSE BOOLEAN :
        IF ok
        THEN /\ local' = local \cup ToFetch
             /\ tmpdir' = MkTemp(tmpdir)
             /\ pc' = "transform"
             /\ log' = Append(log, Event("acquire"))
             /\ UNCHANGED <<ti, err>>
        ELSE /\ local' = {}
             /\ tmpdir' = ExitTemp(MkTemp(tmpdir))
             /\ pc' = Abort(ti).pc
             /\ ti' = Abort(ti).ti
             /\ err' = "download"
             /\ log' = log \o <<Event("acquire"), Event("fail")>>
    /\ UNCHANGED <<nb, items, index, ei, tiles, order, tile_geometry, queried,
                   matches, rgi_region_path, raster, remote>>
    /\ UNCHANGED editVars
    /\ UNCHANGED shadowVars
    /\ UNCHANGED runVars

\* Mutant of Transformed: merging no raster gives a raster without data
\* instead of raising.
TransformedLenient ==
    LET da == CurrentAsset
    IN IF nb = "DEM"
       THEN IF local = {}
            THEN {[x0 |-> da.x0, y0 |-> da.y0, width |-> da.width,
                   height |-> da.height, data |-> {}]}
            ELSE {DemRaster(da, index, local)}
       ELSE IF nb = "RGI"
       THEN {RgiRaster(da, index, rgi_region_path)}
       ELSE {GshhsRaster(da, index, matches, tile_geometry.cells)}

\* The rasters the transform of the current tile can produce; the empty set
\* when it raises.
\*   DEM:   merge_arrays of an empty list raises.
\*   GSHHS: with no matching row the union is an empty geometry, which the
\*          shapefile writer may refuse or write as a raster without land.
Transformed ==
    LET da == CurrentAsset
    IN IF nb = "DEM"
       THEN IF local = {} THEN {} ELSE {DemRaster(da, index, local)}
       ELSE IF nb = "RGI"
       THEN {RgiRaster(da, index, rgi_region_path)}
       ELSE {GshhsRaster(da, index, matches, tile_geometry.cells)}

\* Whether the transform of the current tile can raise.
TransformMayFail ==
    \/ nb = "DEM" /\ local = {}
    \/ nb = "GSHHS" /\ Len(matches) = 0

\* Transform: the output raster of the current tile is written to the
\* working directory as <tile_id>.tif.  The with block of the DEM and RGI
\* loops ends here and their scratch directory is removed; the coastline
\* loop writes the reprojected shapefile into the directory it keeps.
Transform ==
    /\ pc = "transform"
    /\ \/ /\ \E r \in Transformed : raster' = r
          /\ pc' = "upload"
          /\ log' = Append(log, Event("transform"))
          /\ IF LoopScratch(nb)
             THEN /\ local' = local \cup GshhsUtm
                  /\ UNCHANGED tmpdir
             ELSE /\ local' = Cleaned(local)
                  /\ tmpdir' = ExitTemp(tmpdir)
          /\ UNCHANGED <<ti, err>>
       \/ /\ TransformMayFail
          /\ pc' = Abort(ti).pc
          /\ ti' = Abort(ti).ti
          /\ err' = "transform"
          /\ log' = log \o <<Event("transform"), Event("fail")>>
          /\ local' = {}
          /\ tmpdir' = ExitTemp(tmpdir)
          /\ UNCHANGED raster
    /\ UNCHANGED <<nb, items, index, ei, tiles, order, tile_geometry, queried,
                   matches, rgi_region_path, remote>>
    /\ UNCHANGED editVars
    /\ UNCHANGED shadowVars
    /\ UNCHANGED runVars

\* dcache.upload(output_file, f"{tiles_url}/{output_file}")
Upload ==
    /\ pc = "upload"
    /\ \E ok \in BOOLEAN :
        IF ok
        THEN LET path == UploadPath(nb, order[ti])
             IN /\ remote' = {f \in remote : f.path # path}
                               \cup {[path |-> path, raster |-> raster]}
                /\ pc' = NextTile(ti).pc
                /\ ti' = NextTile(ti).ti
                /\ log' = Append(log, Event("upload"))
                /\ IF NextTile(ti).pc = "done"
                   THEN /\ tmpdir' = LeaveLoop(nb, tmpdir)
                        /\ local' = {}
                   ELSE UNCHANGED <<tmpdir, local>>
                /\ UNCHANGED err
        ELSE /\ pc' = Abort(ti).pc
             /\ ti' = Abort(ti).ti
             /\ err' = "upload"
             /\ log' = Append(log, Event("fail"))
             /\ tmpdir' = LeaveLoop(nb, tmpdir)
             /\ local' = {}
             /\ UNCHANGED remote
    /\ UNCHANGED <<nb, items, index, ei, tiles, order, tile_geometry, queried,
                   matches, rgi_region_path, raster>>
    /\ UNCHANGED editVars
    /\ UNCHANGED shadowVars
    /\ UNCHANGED runVars

(***************************************************************************)
(* Specification of the tile loops                                         *)
(***************************************************************************)

Init ==
    /\ nb \in Notebooks
    /\ items \in InjSeqs(ItemKinds, MaxItems)
    /\ index \in Indices(nb)
    /\ pc = "enum"
    /\ ei = 0
    /\ tiles = <<>>
    /\ order = <<>>
    /\ ti = 0
    /\ tile_geometry = None
    /\ queried = None
    /\ matches = <<>>
    /\ rgi_region_path = None
    /\ local = {}
    /\ tmpdir = [live |-> {}, made |-> 0]
    /\ raster = None
    /\ remote = {}
    /\ log = <<>>
    /\ err = None
    /\ catalog = <<>>
    /\ stored = <<>>
    /\ ci = 0
    /\ saves = 0
    /\ catalog_l2a = <<>>
    /\ out_items = <<>>
    /\ pass = 1
    /\ first_run = <<>>

Next ==
    \/ EnumerateItem
    \/ StartTileLoop
    \/ SourceLookup
    \/ Acquire
    \/ Transform
    \/ Upload

Spec == Init /\ [][Next]_vars

(***************************************************************************)
(* Properties of the tile loops                                            *)
(***************************************************************************)

\* Positions of the events of a step of a tile in the history.
Events(step, tile) ==
    {i \in 1..Len(log) : log[i] = [step |-> step, tile |-> tile]}

\* The lookup of the current tile has been made.
LookedUp ==
    /\ ti \in 1..Len(order)
    /\ Events("lookup", order[ti]) # {}

\* The current tile is past its lookup step.
PastLookup == pc \in {"acquire", "transform", "upload"}

\* The rows of the index whose geometry, taken to the CRS of the footprint
\* built for asset da, intersects that footprint.
HitRows(da) ==
    LET g == TileGeometry(nb, da, index)
    IN {i \in DOMAIN index.rows :
          Reproject(index.rows[i].geometry, index.crs, g.crs) \cap g.cells
            # {}}

\* C1: in the glacier loop a tile goes on to acquisition only when exactly
\* one index row intersects its footprint, and then the archive selected is
\* the one named after that row's RGI_CODE; a tile with zero or several
\* intersecting rows stops the loop at the assertion, with nothing fetched,
\* rasterized or uploaded for it.
C1_OneRegionOrFail ==
    nb = "RGI" /\ LookedUp =>
        LET hits == HitRows(CurrentAsset)
            tile == order[ti]
        IN IF Cardinality(hits) = 1
           THEN LET code == index.rows[CHOOSE i \in hits : TRUE].RGI_CODE
                IN /\ matches = <<code>>
                   /\ PastLookup =>
                        \E rest \in {"Alaska.zip", "WesternCanadaUS.zip"} :
                            rgi_region_path.name
                                = Format02d(code) \o "_rgi60_" \o rest
           ELSE /\ pc = "failed"
                /\ err = "AssertionError"
                /\ Events("acquire", tile) = {}
                /\ Events("transform", tile) = {}
                /\ Events("upload", tile) = {}
                /\ \A f \in remote : f.path # UploadPath(nb, tile)

\* C1 witness: the glacier loop uploaded one tile (one region matched) and
\* then stopped at a tile that two regions match.
C1_Witness ==
    /\ nb = "RGI"
    /\ LookedUp
    /\ Cardinality(HitRows(CurrentAsset)) = 2
    /\ pc = "failed"
    /\ remote # {}

\* The descriptor a lookup returns for a row.
Desc(row) ==
    IF nb = "DEM" THEN row.fileurl
    ELSE IF nb = "RGI" THEN row.RGI_CODE
    ELSE row

\* C2: after every lookup the footprint and the index that was queried are
\* in the same CRS, the queried index is the source index in that CRS, the
\* footprint covers the tile, and the result holds, once each and in index
\* order, the descriptors of exactly the rows that intersect the footprint.
C2_ExactIntersection ==
    LookedUp =>
        LET da == CurrentAsset
            rows == queried.rows
            hit == {i \in DOMAIN rows :
                      \E c \in rows[i].geometry : c \in tile_geometry.cells}
        IN /\ queried.crs = tile_geometry.crs
           /\ DOMAIN rows = DOMAIN index.rows
           /\ \A i \in DOMAIN rows :
                rows[i].geometry
                    = Reproject(index.rows[i].geometry, index.crs,
                                queried.crs)
           /\ Reproject(TileCells(da), da.crs, queried.crs)
                \subseteq tile_geometry.cells
           /\ Len(matches) = Cardinality(hit)
           /\ \A i \in hit : \E k \in DOMAIN matches :
                matches[k] = Desc(rows[i])
           /\ \A k \in DOMAIN matches : \E i \in hit :
                matches[k] = Desc(rows[i])

\* C2 witness: a lookup over an index of three rows that returned some rows
\* and left out another.
C2_Witness ==
    /\ LookedUp
    /\ Len(queried.rows) = 3
    /\ Len(matches) \in {1, 2}

\* C3: a failure ends the loop.  Nothing is recorded after a failure, the
\* tile that failed is not uploaded, no step was taken for a later tile, no
\* step of a tile is taken twice, and every raster uploaded is published.
C3_FailureStopsLoop ==
    /\ \A i \in 1..Len(log) : log[i].step = "fail" => i = Len(log)
    /\ (pc = "failed") = (Len(log) > 0 /\ log[Len(log)].step = "fail")
    /\ pc = "failed" =>
        /\ ti \in 1..Len(order) =>
            /\ Events("upload", order[ti]) = {}
            /\ \A f \in remote : f.path # UploadPath(nb, order[ti])
        /\ \A j \in (ti + 1)..Len(order) :
            \A i \in 1..Len(log) : log[i].tile # order[j]
    /\ \A i, j \in 1..Len(log) : log[i] = log[j] => i = j
    /\ \A i \in 1..Len(log) :
        log[i].step = "upload" =>
            \E f \in remote : f.path = UploadPath(nb, log[i].tile)

\* C3 witness: the loop failed at the second of three tiles, after the
\* first one was uploaded.
C3_Witness ==
    /\ pc = "failed"
    /\ ti = 2
    /\ Len(order) = 3
    /\ Cardinality(remote) = 1

\* C4 (as claimed): in the glacier loop a lookup with several matches ends
\* at the assertion, and a lookup with no match is not stopped by the
\* assertion but fails with a lookup error where the match is used.
C4_AsClaimed ==
    nb = "RGI" /\ LookedUp =>
        /\ Len(matches) > 1 => pc = "failed" /\ err = "AssertionError"
        /\ Len(matches) = 0 => pc = "failed" /\ err = "IndexError: iloc"

\* C4 (amended): in the glacier loop a lookup with no match and a lookup
\* with several matches are both stopped by the assertion; the lookup error
\* of rgi_codes.iloc[0] is never raised.
C4_AssertionStopsBoth ==
    nb = "RGI" /\ LookedUp =>
        /\ Len(matches) # 1 => pc = "failed" /\ err = "AssertionError"
        /\ err # "IndexError: iloc"

\* C4 witness: the glacier loop stopped at the assertion with no match.
C4_Witness ==
    /\ nb = "RGI"
    /\ LookedUp
    /\ Len(matches) = 0
    /\ err = "AssertionError"

\* C5 (as claimed): in the elevation loop and in the glacier loop a tile
\* gets past its lookup only with exactly one matching row.
C5_AsClaimed ==
    nb \in {"DEM", "RGI"} /\ LookedUp /\ PastLookup => Len(matches) = 1

\* C5 (amended): only the glacier loop asserts that exactly one row matches;
\* the elevation loop makes no assertion and takes a lookup result of any
\* size on to download_and_mosaic.
C5_OnlyGlacierAsserts ==
    /\ nb = "RGI" /\ LookedUp /\ PastLookup => Len(matches) = 1
    /\ nb = "RGI" /\ LookedUp /\ Len(matches) # 1 => err = "AssertionError"
    /\ nb = "DEM" /\ LookedUp =>
        /\ err # "AssertionError"
        /\ pc = "failed" => Events("acquire", order[ti]) # {}
                            \/ err = "get_asset"

\* C5 witness: the elevation loop downloaded the files of two matching rows.
C5_Witness ==
    /\ nb = "DEM"
    /\ pc = "transform"
    /\ Len(matches) = 2
    /\ Cardinality(local) = 2

\* C6: when a tile loop has completed, every enumerated tile was uploaded
\* exactly once, its raster is published at <tiles_url>/<tile_id>.tif, and
\* no two tiles share a remote path.
C6_OneRasterPerTile ==
    pc = "done" =>
        /\ \A t \in DOMAIN tiles :
            /\ Cardinality(Events("upload", t)) = 1
            /\ Cardinality({f \in remote :
                    f.path = TilesUrl(nb) \o "/" \o t \o ".tif"}) = 1
        /\ Cardinality(remote) = Cardinality(DOMAIN tiles)
        /\ \A f, g \in remote : f.path = g.path => f = g

\* C6 witness: a loop over three tiles has completed.
C6_Witness ==
    /\ pc = "done"
    /\ Cardinality(DOMAIN tiles) = 3

\* The tile ID of an item: str(utm_zone), latitude_band, grid_square, in
\* that order.
TileKey(item) ==
    ToString(item.utm_zone) \o item.latitude_band \o item.grid_square

\* C7: the entries of `tiles` are the tile IDs of the items visited so far,
\* each once, each mapped to the first item of the collection with that ID;
\* after enumeration these are the tile IDs of all items.
C7_FirstItemPerTile ==
    LET seen == IF pc = "enum" THEN 1..ei ELSE 1..Len(items)
    IN /\ DOMAIN tiles = {TileKey(items[i]) : i \in seen}
       /\ \A k \in DOMAIN tiles :
            LET first == SetMin({i \in seen : TileKey(items[i]) = k})
            IN tiles[k] = items[first]
       /\ Len(order) = Cardinality(DOMAIN tiles)
       /\ {order[i] : i \in DOMAIN order} = DOMAIN tiles

\* C7 witness: enumeration is over and a later item of the collection has
\* the tile ID of an earlier one.
C7_Witness ==
    /\ pc # "enum"
    /\ \E i, j \in 1..Len(items) :
        i < j /\ TileKey(items[i]) = TileKey(items[j])

\* C8 (as claimed): a tile whose footprint lies within one row of the index
\* and meets no other row has exactly one match, and its raster has the
\* bounds of the tile's bounding box and the tile's width and height.
C8_AsClaimed ==
    LookedUp =>
        LET da == CurrentAsset
            rows == queried.rows
            within == {i \in DOMAIN rows :
                         tile_geometry.cells \subseteq rows[i].geometry}
            meets == {i \in DOMAIN rows :
                         tile_geometry.cells \cap rows[i].geometry # {}}
        IN Cardinality(within) = 1 /\ meets = within =>
            /\ Len(matches) = 1
            /\ pc = "upload" =>
                /\ RasterBounds(raster) = RioBounds(da)
                /\ RasterSize(raster) = <<da.width, da.height>>

\* A tile iteration is under way.
InIteration == pc \in {"lookup", "acquire", "transform", "upload"}

\* C11 (as claimed): in each of the three loops no scratch directory is
\* alive when an iteration starts, and none is left when the notebook ends.
C11_AsClaimed ==
    pc \in {"lookup", "done", "failed"} => tmpdir.live = {}

\* C11 (amended): the elevation and glacier loops make one scratch directory
\* for every tile that reaches acquisition and remove it, with its files,
\* before the upload of that tile, whether the iteration fails or not; the
\* coastline loop makes a single scratch directory before its first
\* iteration, which holds the coastline shapefile during every step of
\* every iteration and is removed only when the loop has ended or failed.
C11_ScratchScopes ==
    /\ Cardinality(tmpdir.live) <= 1
    /\ pc \in {"enum", "done", "failed"} => tmpdir.live = {} /\ local = {}
    /\ nb \in {"DEM", "RGI"} =>
        /\ tmpdir.live # {} <=> pc = "transform"
        /\ pc # "transform" => local = {}
        /\ tmpdir.made
             = Cardinality({i \in 1..Len(log) : log[i].step = "acquire"})
    /\ nb = "GSHHS" =>
        /\ tmpdir.made <= 1
        /\ InIteration <=> tmpdir.live = {1}
        /\ InIteration => GshhsParts \subseteq local

\* C11 witness: the coastline loop starts its second iteration with the
\* scratch directory of the first, which still holds the shapefile written
\* for the first tile.
C11_Witness ==
    /\ nb = "GSHHS"
    /\ pc = "lookup"
    /\ ti = 2
    /\ tmpdir.live = {1}
    /\ GshhsUtm \subseteq local

\* The rasters the steps of one iteration yield when they are given nothing
\* but the notebook, the grid of the tile's representative item and the
\* source index: none when the iteration stops before its upload.
RasterOf(n, da, idx) ==
    LET g == TileGeometry(n, da, idx)
        m == Lookup(n, QueriedIndex(n, da, idx), g.cells)
    IN IF n = "DEM"
       THEN IF Len(m) = 0 THEN {}
            ELSE {DemRaster(da, idx, {m[i] : i \in DOMAIN m})}
       ELSE IF n = "RGI"
       THEN IF Len(m) # 1 \/ GlobRegion(m[1]) = {} THEN {}
            ELSE {RgiRaster(da, idx, CHOOSE a \in GlobRegion(m[1]) : TRUE)}
       ELSE {GshhsRaster(da, idx, m, g.cells)}

\* C12: the raster published for a tile is the one that the grid of the
\* tile's representative item and the source index determine, whatever the
\* other tiles of the catalog are, wherever the tile comes in the order of
\* processing and whatever the iterations before it left behind.
C12_RasterOfItemAndIndex ==
    \A t \in DOMAIN tiles :
        \A f \in remote :
            f.path = UploadPath(nb, t) =>
                /\ f.raster \in RasterOf(nb, tiles[t].B02, index)
                /\ Cardinality(RasterOf(nb, tiles[t].B02, index)) = 1

\* C12 witness: a loop has published the rasters of two tiles with
\* different grids; the rasters differ, and the tile published second is
\* the one that would be first in the order of the tile IDs.
C12_Witness ==
    /\ pc = "done"
    /\ Len(order) = 2
    /\ tiles[order[1]].B02 = AssetH
    /\ tiles[order[2]].B02 = AssetG
    /\ \E f, g \in remote : f.raster # g.raster

\* C17 (as claimed): in all three lookups the footprint is in the CRS of
\* the source index and the index queried is the source index itself.
C17_AsClaimed ==
    LookedUp =>
        /\ tile_geometry.crs = index.crs
        /\ queried = index

\* C17 (amended): the glacier and coastline lookups take the footprint to
\* the CRS of the index (the bounding box of the reprojected tile bounds)
\* and query the index as it was read; the elevation lookup leaves the
\* footprint in the CRS of the tile and queries a copy of the index
\* reprojected to that CRS.  In no loop is the index that was read changed.
C17_WhichSideIsReprojected ==
    /\ nb \in Notebooks => index.crs = IndexCRS(nb)
    /\ LookedUp =>
        LET da == tiles[order[ti]].B02
        IN IF nb = "DEM"
           THEN /\ tile_geometry = [cells |-> FromBounds(RioBounds(da)),
                                    crs |-> da.crs]
                /\ queried.crs = da.crs
                /\ queried.crs # index.crs
                /\ DOMAIN queried.rows = DOMAIN index.rows
                /\ \A i \in DOMAIN index.rows :
                     queried.rows[i].geometry
                        = {<<c[1] - c[2], c[2]>> :
                              c \in index.rows[i].geometry}
           ELSE /\ queried = index
                /\ tile_geometry.crs = index.crs
                /\ tile_geometry.crs # da.crs
                /\ tile_geometry.cells
                     = FromBounds(Bounds({<<c[1] + c[2], c[2]>> :
                            c \in FromBounds(RioBounds(da))}))

\* C17 witness: the elevation loop has queried a reprojected copy of an
\* index of three rows, which differs from the index that was read.
C17_Witness ==
    /\ nb = "DEM"
    /\ LookedUp
    /\ Len(index.rows) = 3
    /\ queried.rows # index.rows
    /\ Len(matches) > 0

\* The tiles no row of the index intersects.
NoMatchTiles == {t \in DOMAIN tiles : HitRows(tiles[t].B02) = {}}

\* The upload path of a tile holds a raster.
Published(t) == \E f \in remote : f.path = UploadPath(nb, t)

At(step, tile) ==
    IF Events(step, tile) = {} THEN 0 ELSE SetMin(Events(step, tile))

\* The archives of the rows of the index that intersect the footprint of
\* asset da.
MatchedFiles(da) == {index.rows[i].fileurl : i \in HitRows(da)}

\* C19: in the elevation loop a tile with one matching row or several goes
\* on to acquisition; when the merge starts the scratch directory holds the
\* files of all its matching rows; the raster that is uploaded is the crop
\* to the tile bounds of the reprojection of the merge of all those files;
\* and lookup, downloads, transform and upload of a tile follow each other
\* in that order.
C19_DownloadMergeReprojectCrop ==
    nb = "DEM" =>
        /\ LookedUp /\ PastLookup =>
            LET da == tiles[order[ti]].B02
            IN /\ Len(matches) = Cardinality(MatchedFiles(da))
               /\ pc = "transform" => local = MatchedFiles(da)
               /\ pc = "upload" =>
                    /\ MatchedFiles(da) # {}
                    /\ raster
                        = ClipBox(RioReproject(
                                    MergeArrays(index, MatchedFiles(da)), da),
                                  RioBounds(da))
        /\ \A t \in DOMAIN tiles :
            /\ At("acquire", t) # 0 =>
                0 < At("lookup", t) /\ At("lookup", t) < At("acquire", t)
            /\ At("transform", t) # 0 =>
                0 < At("acquire", t)
                    /\ At("acquire", t) < At("transform", t)
            /\ At("upload", t) # 0 =>
                0 < At("transform", t)
                    /\ At("transform", t) < At("upload", t)

\* C19 witness: the elevation loop is about to upload the raster of a tile
\* that two rows of the index match, and an uploaded tile came before it.
C19_Witness ==
    /\ nb = "DEM"
    /\ pc = "upload"
    /\ Len(matches) = 2
    /\ raster.data # {}
    /\ remote # {}

\* The ground covered by asset da, in the CRS of the index.
Ground(da) == Reproject(TileCells(da), da.crs, index.crs)

\* The land on the ground of asset da: what the rows of the coastline index
\* that reach the tile have in common with it.
LandOn(da) ==
    UNION {index.rows[i].geometry \cap Ground(da) :
            i \in {j \in DOMAIN index.rows :
                        Intersects(index.rows[j].geometry, Ground(da))}}

\* C20: the raster the coastline loop is about to upload has the grid of
\* the tile, and a pixel of that grid is land exactly when the place it
\* covers is land on the ground of the tile; no other pixel is marked.
C20_LandExactlyInside ==
    nb = "GSHHS" /\ pc = "upload" =>
        LET da == tiles[order[ti]].B02
        IN /\ RasterBounds(raster) = RioBounds(da)
           /\ RasterSize(raster) = <<da.width, da.height>>
           /\ raster.data \subseteq TileCells(da)
           /\ \A p \in TileCells(da) :
                p \in raster.data
                    <=> Reproject({p}, da.crs, index.crs) \subseteq LandOn(da)

\* C20 witness: the coastline loop is about to upload a raster with land
\* and sea, of a tile in another CRS than the index, and the land pixels
\* are not the pixels the coastline covers before reprojection.
C20_Witness ==
    /\ nb = "GSHHS"
    /\ pc = "upload"
    /\ raster.data # {}
    /\ raster.data # TileCells(tiles[order[ti]].B02)
    /\ tiles[order[ti]].B02.crs # index.crs
    /\ raster.data
        # TileCells(tiles[order[ti]].B02)
            \cap UNION {index.rows[i].geometry : i \in DOMAIN index.rows}

\* The events of the history that belong to a tile.
TileEvents == {i \in 1..Len(log) : log[i].tile # None}

\* One tile at a time: the events of a tile are next to each other in the
\* history, a tile is left only after its upload, and the tiles come in the
\* order of the loop.
OneTileAtATime ==
    /\ \A i \in TileEvents :
        \E k \in 1..ti : k <= Len(order) /\ log[i].tile = order[k]
    /\ \A i, j \in TileEvents :
        i < j /\ log[i].tile # log[j].tile =>
            /\ \E u \in Events("upload", log[i].tile) : i <= u /\ u < j
            /\ \A k \in TileEvents :
                j < k => log[k].tile # log[i].tile
            /\ \E a, b \in 1..Len(order) :
                a < b /\ order[a] = log[i].tile /\ order[b] = log[j].tile
    /\ \A k \in 1..Len(order) :
        k < ti => Events("upload", order[k]) # {}

\* C21 (as claimed): in each of the three loops a tile that is transformed
\* had files acquired after its own lookup, and the tiles are worked on one
\* at a time.
C21_AsClaimed ==
    /\ OneTileAtATime
    /\ \A t \in DOMAIN tiles :
        At("transform", t) # 0 =>
            \E a \in 1..Len(log) :
                /\ log[a].step = "acquire"
                /\ At("lookup", t) < a
                /\ a < At("transform", t)

\* C21 (amended): in the elevation and glacier loops the steps of one tile
\* occur in the order lookup, acquisition, transform, upload; in the
\* coastline loop the acquisition comes once, before the lookup of the
\* first tile, and the steps of one tile are lookup, transform, upload;
\* and in all three loops the tiles are worked on one at a time, a tile
\* being left only after its upload.
C21_StepOrder ==
    /\ OneTileAtATime
    /\ \A t \in DOMAIN tiles :
        /\ At("upload", t) # 0 =>
            0 < At("transform", t) /\ At("transform", t) < At("upload", t)
        /\ At("transform", t) # 0 =>
            0 < At("lookup", t) /\ At("lookup", t) < At("transform", t)
        /\ nb \in {"DEM", "RGI"} =>
            /\ At("transform", t) # 0 =>
                /\ At("lookup", t) < At("acquire", t)
                /\ At("acquire", t) < At("transform", t)
            /\ At("acquire", t) # 0 => 0 < At("lookup", t)
        /\ nb = "GSHHS" => At("acquire", t) = 0
    /\ nb = "GSHHS" /\ pc \notin {"enum"} =>
        /\ log[1] = [step |-> "acquire", tile |-> None]
        /\ \A i \in 2..Len(log) : log[i].step # "acquire"
    /\ nb \in {"DEM", "RGI"} =>
        \A i \in 1..Len(log) : log[i].step = "acquire" => i \in TileEvents

\* C21 witness: the glacier loop transforms its second tile after it has
\* uploaded the first.
C21_Witness ==
    /\ nb = "RGI"
    /\ pc = "transform"
    /\ ti = 2
    /\ Events("upload", order[1]) # {}
    /\ Events("acquire", order[2]) # {}

\* The tile key of an item: the values of TILE_ID_KEYS.
Triple(item) == <<item.utm_zone, item.latitude_band, item.grid_square>>

\* Tile keys of the MGRS: a zone number without padding, one letter of
\* latitude band, two letters of grid square.
KeyGrid ==
    [utm_zone : {1, 5, 6, 15, 51, 60},
     latitude_band : {"C", "V", "X"},
     grid_square : {"MG", "MH", "GM"}]

\* The items the enumeration has visited.
Seen == IF pc = "enum" THEN 1..ei ELSE 1..Len(items)

\* C25: items with different tile keys have different tile IDs, so `tiles`
\* has one entry for every tile key among the items visited, each entry
\* stands for items of one key only, and tiles with different keys are
\* uploaded to different paths.
C25_TileIdInjective ==
    /\ pc = "enum" /\ ei = 0 =>
        \A a, b \in KeyGrid :
            a # b => get_sentinel2_tile_id(a) # get_sentinel2_tile_id(b)
    /\ \A i, j \in Seen :
        Triple(items[i]) # Triple(items[j]) =>
            get_sentinel2_tile_id(items[i]) # get_sentinel2_tile_id(items[j])
    /\ Cardinality(DOMAIN tiles)
        = Cardinality({Triple(items[i]) : i \in Seen})
    /\ \A i \in Seen :
        /\ get_sentinel2_tile_id(items[i]) \in DOMAIN tiles
        /\ Triple(tiles[get_sentinel2_tile_id(items[i])]) = Triple(items[i])
    /\ nb \in Notebooks =>
        \A s, t \in DOMAIN tiles :
            Triple(tiles[s]) # Triple(tiles[t]) =>
                UploadPath(nb, s) # UploadPath(nb, t)
    /\ Cardinality(remote)
        = Cardinality({Triple(tiles[t]) :
                         t \in {u \in DOMAIN tiles :
                                    Events("upload", u) # {}}})

\* C25 witness: two tiles that differ in nothing but the zone have been
\* uploaded, to two files.
C25_Witness ==
    /\ pc = "done"
    /\ Cardinality(remote) >= 2
    /\ \E s, t \in DOMAIN tiles :
        /\ tiles[s].utm_zone # tiles[t].utm_zone
        /\ tiles[s].latitude_band = tiles[t].latitude_band
        /\ tiles[s].grid_square = tiles[t].grid_square
        /\ Events("upload", s) # {}
        /\ Events("upload", t) # {}

\* The files matched for the tiles the loop worked on before the current
\* one.
EarlierFiles ==
    UNION {MatchedFiles(tiles[order[k]].B02) : k \in 1..(ti - 1)}

\* C27: when the elevation loop merges, the scratch directory it globs
\* holds the files of the URLs matched for the current tile and no file
\* that was fetched only for an earlier tile, and the raster it goes on to
\* upload is the one made of the files matched for the current tile.
C27_OwnFilesOnly ==
    nb = "DEM" /\ ti \in 1..Len(order) =>
        LET own == MatchedFiles(tiles[order[ti]].B02)
        IN /\ pc = "transform" =>
                /\ local = own
                /\ local \cap (EarlierFiles \ own) = {}
           /\ pc = "upload" =>
                /\ local = {}
                /\ raster = DemRaster(tiles[order[ti]].B02, index, own)

\* C27 witness: the elevation loop is about to merge the files of its
\* second tile, after it fetched for the first tile a file that the second
\* tile does not match.
C27_Witness ==
    /\ nb = "DEM"
    /\ pc = "transform"
    /\ ti = 2
    /\ local # {}
    /\ EarlierFiles \ MatchedFiles(tiles[order[ti]].B02) # {}

(***************************************************************************)
(* The catalog-editing notebooks: inputs                                   *)
(***************************************************************************)

EditNotebooks == {"relink", "sensor"}

\* A file path relative to the scene: directory, stem (its parts between
\* underscores) and suffix.
RECURSIVE JoinParts(_)
JoinParts(parts) ==
    IF Len(parts) = 0 THEN ""
    ELSE IF Len(parts) = 1 THEN parts[1]
    ELSE parts[1] \o "_" \o JoinParts(Tail(parts))

PathStr(path) == path.dir \o "/" \o JoinParts(path.stem) \o path.suffix

\* path.stem.split("_")[-1]
LastPart(path) == path.stem[Len(path.stem)]

ImgPath(band) ==
    [dir |-> "GRANULE/L1C_T05VMG/IMG_DATA",
     stem |-> <<"T05VMG", "20210329T213529", band>>, suffix |-> ".jp2"]

QiPath(band, suffix) ==
    [dir |-> "GRANULE/L1C_T05VMG/QI_DATA",
     stem |-> <<"MSK", "DETFOO", band>>, suffix |-> suffix]

\* manifest.safe of a product: its dataObject elements.  The second product
\* has no true-colour image.
Manifest(product_id) ==
    IF product_id = "S2A_MSIL1C_20210329"
    THEN << [ID |-> "S2_Level-1C_Product_Metadata", fileLocation |->
                [dir |-> ".", stem |-> <<"MTD", "MSIL1C">>,
                 suffix |-> ".xml"]],
            [ID |-> "IMG_DATA_Band_10m_1_Tile1_Data",
             fileLocation |-> ImgPath("B02")],
            [ID |-> "DetectorFootprint_B02_Tile1_Data",
             fileLocation |-> QiPath("B02", ".gml")],
            [ID |-> "IMG_DATA_Band_20m_4_Tile1_Data",
             fileLocation |-> ImgPath("B8A")],
            [ID |-> "IMG_DATA_Band_TCI_Tile1_Data",
             fileLocation |-> ImgPath("TCI")] >>
    ELSE << [ID |-> "IMG_DATA_Band_10m_1_Tile1_Data",
             fileLocation |-> ImgPath("B02")] >>

\* 'IMG_DATA' in id
IsImgData(id) ==
    id \in {"IMG_DATA_Band_10m_1_Tile1_Data",
            "IMG_DATA_Band_20m_4_Tile1_Data",
            "IMG_DATA_Band_TCI_Tile1_Data"}

\* The elements of Pixel_Level_QI in the granule metadata of an item.  The
\* second granule lists a detector footprint with an extension that
\* EXT_TO_MEDIATYPE does not know.
GranuleMetadata(id) ==
    IF id = "S2A_MSIL1C_20210329"
    THEN << [type |-> "MSK_DETFOO", text |-> QiPath("B02", ".gml")],
            [type |-> "MSK_CLOUDS", text |-> QiPath("B00", ".gml")],
            [type |-> "MSK_DETFOO", text |-> QiPath("B03", ".jp2")] >>
    ELSE << [type |-> "MSK_DETFOO", text |-> QiPath("B02", ".gml")],
            [type |-> "MSK_DETFOO", text |-> QiPath("B03", ".tif")] >>

Asset(href, media_type, roles) ==
    [href |-> href, media_type |-> media_type, roles |-> roles]

AwsHref(name) == "s3://sentinel-s2-l1c/tiles/5/V/MG/2021/3/29/0/" \o name

\* The assets an item can have when the catalog is read.
AssetSets ==
    LET full ==
          [k \in {"overview", "B02", "metadata", "granule-metadata"} |->
             IF k = "overview"
             THEN Asset(AwsHref("preview.jpg"), "image/jpeg", <<"overview">>)
             ELSE IF k = "B02"
             THEN Asset(AwsHref("B02.jp2"), "image/jp2", <<"data">>)
             ELSE IF k = "metadata"
             THEN Asset(AwsHref("metadata.xml"), "application/xml",
                        <<"metadata">>)
             ELSE Asset(AwsHref("MTD_TL.xml"), "application/xml",
                        <<"metadata">>)]
    IN { full,
         [k \in {"B02", "metadata"} |-> full[k]] }

\* The items a catalog is drawn from: the first product is of tile 05VMG,
\* the second of tile 32TQM.  sentinel:utm_zone is a number, s2:mgrs_tile
\* the five characters of the tile.
Properties(product_id) ==
    IF product_id = "S2A_MSIL1C_20210329"
    THEN [utm_zone |-> 5, latitude_band |-> "V", grid_square |-> "MG",
          product_id |-> product_id,
          mgrs_tile |-> <<"0", "5", "V", "M", "G">>]
    ELSE [utm_zone |-> 32, latitude_band |-> "T", grid_square |-> "QM",
          product_id |-> product_id,
          mgrs_tile |-> <<"3", "2", "T", "Q", "M">>]

EditItemKinds ==
    { [id |-> pid, collection |-> c, datetime |-> "2021-03-29T21:35:29Z",
       geometry |-> FromBounds(<<0, 0, 2, 2>>),
       properties |-> Properties(pid), assets |-> a] :
        pid \in {"S2A_MSIL1C_20210329", "S2B_MSIL1C_20210403"},
        c \in {"sentinel-s2-l1c", "sentinel-s2-l2a"},
        a \in AssetSets }

\* Catalogs: sequences of items with distinct ids.
Catalogs ==
    {c \in InjSeqs(EditItemKinds, MaxItems) :
        \A i, j \in DOMAIN c : i # j => c[i].id # c[j].id}

(***************************************************************************)
(* The link-fixup notebook                                                 *)
(***************************************************************************)

RELINK_BASE_URL ==
    "http://storage.googleapis.com/gcp-public-data-sentinel-2/tiles"

\* '{}/{:02d}/{}/{}/{}.SAFE'.format(BASE_URL, utm_zone, latitude_band,
\* grid_square, product_id)
SafeUrl(item) ==
    RELINK_BASE_URL \o "/" \o Format02d(item.properties.utm_zone)
        \o "/" \o item.properties.latitude_band
        \o "/" \o item.properties.grid_square
        \o "/" \o item.properties.product_id \o ".SAFE"

\* Mutant of get_band_urls: every dataObject of the manifest is taken.
get_band_urls_any(url, manifest) ==
    LET objs == manifest
        bands == {LastPart(objs[i].fileLocation) : i \in DOMAIN objs}
    IN [b \in bands |->
          LET last == SetMax({i \in DOMAIN objs :
                                LastPart(objs[i].fileLocation) = b})
          IN url \o "/" \o PathStr(objs[last].fileLocation)]

\* _get_band_urls(url), given the text of url/manifest.safe: one entry per
\* IMG_DATA dataObject, keyed by the last part of the file's stem.
get_band_urls(url, manifest) ==
    LET objs == SelectSeq(manifest, LAMBDA o : IsImgData(o.ID))
        bands == {LastPart(objs[i].fileLocation) : i \in DOMAIN objs}
    IN [b \in bands |->
          LET last == SetMax({i \in DOMAIN objs :
                                LastPart(objs[i].fileLocation) = b})
          IN url \o "/" \o PathStr(objs[last].fileLocation)]

\* Mutant of RelinkBands: every band of the manifest becomes an asset.
RelinkBandsAll(assets, band_urls) ==
    [k \in DOMAIN assets \cup DOMAIN band_urls |->
        IF k \in DOMAIN band_urls
        THEN Asset(band_urls[k], "image/jp2", <<"data">>)
        ELSE assets[k]]

\* for band, url in band_urls.items():
\*     if band in item.assets: item.assets[band].href = url
RelinkBands(assets, band_urls) ==
    [k \in DOMAIN assets |->
        IF k \in DOMAIN band_urls
        THEN [assets[k] EXCEPT !.href = band_urls[k]]
        ELSE assets[k]]

\* The positions in the catalog of the items a notebook's loop visits, in
\* order.
\*   relink:  catalog.get_child("sentinel-s2-l1c").get_all_items()
\*   sensor:  catalog.get_all_items()
RECURSIVE LoopItemsFrom(_, _)
LoopItemsFrom(n, i) ==
    IF i > Len(items) THEN <<>>
    ELSE IF n = "sensor" \/ items[i].collection = "sentinel-s2-l1c"
    THEN <<i>> \o LoopItemsFrom(n, i + 1)
    ELSE LoopItemsFrom(n, i + 1)

LoopItems == LoopItemsFrom(nb, 1)

\* One iteration of the link-fixup loop.
RelinkItem ==
    /\ nb = "relink"
    /\ pc = "edit"
    /\ ci < Len(LoopItems)
    /\ LET i == LoopItems[ci + 1]
           item == catalog[i]
       IN \E ok \in BOOLEAN :
            IF ~ok
            THEN \* the manifest cannot be fetched
                 /\ pc' = "failed"
                 /\ err' = "get_text"
                 /\ UNCHANGED <<catalog, ci>>
            ELSE LET band_urls ==
                        get_band_urls(SafeUrl(item),
                                      Manifest(item.properties.product_id))
                     relinked == RelinkBands(item.assets, band_urls)
                 IN IF "TCI" \in DOMAIN band_urls
                       /\ "overview" \in DOMAIN relinked
                    THEN /\ catalog' =
                            [catalog EXCEPT ![i].assets =
                                [relinked EXCEPT !["overview"].href =
                                    band_urls["TCI"]]]
                         /\ ci' = ci + 1
                         /\ UNCHANGED <<pc, err>>
                    ELSE /\ catalog' = [catalog EXCEPT ![i].assets = relinked]
                         /\ pc' = "failed"
                         /\ err' = "KeyError"
                         /\ UNCHANGED ci
    /\ UNCHANGED <<nb, items, index, ei, tiles, order, ti, tile_geometry,
                   queried, matches, rgi_region_path, local, tmpdir, raster,
                   remote, log, stored, saves>>
    /\ UNCHANGED shadowVars
    /\ UNCHANGED runVars

(***************************************************************************)
(* The sensor-array notebook                                               *)
(***************************************************************************)

SENTINEL2_BUCKET == "gcp-public-data-sentinel-2"
BASE_URL == "http://storage.googleapis.com"

RECURSIVE StrJoin(_)
StrJoin(chars) ==
    IF Len(chars) = 0 THEN "" ELSE chars[1] \o StrJoin(Tail(chars))

\* Python slice s[a:b] of a string given as its characters (0-based, b
\* excluded, cut at the end of the string).
Slice(chars, a, b) ==
    StrJoin([k \in 1..(IF b > Len(chars) THEN Len(chars) - a ELSE b - a)
                |-> chars[a + k]])

\* Mutant of make_url: the tile is put in the path as one component.
make_url_flat(item, path_rel) ==
    BASE_URL \o "/" \o SENTINEL2_BUCKET \o "/tiles/"
        \o StrJoin(item.properties.mgrs_tile) \o "/"
        \o item.id \o "/" \o PathStr(path_rel)

\* make_url(item, path_rel)
make_url(item, path_rel) ==
    LET tile_id == item.properties.mgrs_tile
    IN BASE_URL \o "/" \o SENTINEL2_BUCKET \o "/tiles/"
        \o Slice(tile_id, 0, 2) \o "/" \o Slice(tile_id, 2, 3) \o "/"
        \o Slice(tile_id, 3, Len(tile_id)) \o "/"
        \o item.id \o "/" \o PathStr(path_rel)

\* EXT_TO_MEDIATYPE
EXT_TO_MEDIATYPE ==
    [e \in {".jp2", ".gml"} |->
        IF e = ".jp2" THEN "image/jp2" ELSE "application/xml"]

\* Mutant of AddAssets: an asset is added for an element of any type.
RECURSIVE AddAssetsAnyType(_, _, _)
AddAssetsAnyType(item, assets, els) ==
    IF Len(els) = 0 THEN [assets |-> assets, ok |-> TRUE]
    ELSE LET el == els[1]
         IN IF el.text.suffix \notin DOMAIN EXT_TO_MEDIATYPE
            THEN [assets |-> assets, ok |-> FALSE]
            ELSE LET key == "sensor-metadata-" \o LastPart(el.text)
                     asset == Asset(make_url(item, el.text),
                                    EXT_TO_MEDIATYPE[el.text.suffix],
                                    <<"metadata">>)
                 IN AddAssetsAnyType(item,
                              [k \in DOMAIN assets \cup {key} |->
                                  IF k = key THEN asset ELSE assets[k]],
                              Tail(els))

\* Mutant of AddAssets: an asset is not replaced; when its key is taken the
\* new asset is added under a key of its own.
RECURSIVE AddAssetsBeside(_, _, _)
AddAssetsBeside(item, assets, els) ==
    IF Len(els) = 0 THEN [assets |-> assets, ok |-> TRUE]
    ELSE LET el == els[1]
         IN IF el.type # "MSK_DETFOO"
            THEN AddAssetsBeside(item, assets, Tail(els))
            ELSE IF el.text.suffix \notin DOMAIN EXT_TO_MEDIATYPE
            THEN [assets |-> assets, ok |-> FALSE]
            ELSE LET band == "sensor-metadata-" \o LastPart(el.text)
                     key == IF band \in DOMAIN assets THEN band \o "_2"
                            ELSE band
                     asset == Asset(make_url(item, el.text),
                                    EXT_TO_MEDIATYPE[el.text.suffix],
                                    <<"metadata">>)
                 IN AddAssetsBeside(item,
                              [k \in DOMAIN assets \cup {key} |->
                                  IF k = key THEN asset ELSE assets[k]],
                              Tail(els))

\* The loop of add_sensor_array_metadata_as_assets over the elements of
\* Pixel_Level_QI: the assets of the item after the loop, and whether the
\* loop ran to its end (it stops at an extension EXT_TO_MEDIATYPE lacks).
RECURSIVE AddAssets(_, _, _)
AddAssets(item, assets, els) ==
    IF Len(els) = 0 THEN [assets |-> assets, ok |-> TRUE]
    ELSE LET el == els[1]
         IN IF el.type # "MSK_DETFOO"
            THEN AddAssets(item, assets, Tail(els))
            ELSE IF el.text.suffix \notin DOMAIN EXT_TO_MEDIATYPE
            THEN [assets |-> assets, ok |-> FALSE]
            ELSE LET key == "sensor-metadata-" \o LastPart(el.text)
                     asset == Asset(make_url(item, el.text),
                                    EXT_TO_MEDIATYPE[el.text.suffix],
                                    <<"metadata">>)
                 IN AddAssets(item,
                              [k \in DOMAIN assets \cup {key} |->
                                  IF k = key THEN asset ELSE assets[k]],
                              Tail(els))

\* One iteration of `for item in catalog.get_all_items():
\* add_sensor_array_metadata_as_assets(item)`.
AddSensorArrayAssets ==
    /\ nb = "sensor"
    /\ pc = "edit"
    /\ ci < Len(LoopItems)
    /\ LET i == LoopItems[ci + 1]
           item == catalog[i]
       IN IF "granule-metadata" \notin DOMAIN item.assets
          THEN /\ pc' = "failed"
               /\ err' = "KeyError"
               /\ UNCHANGED <<catalog, ci>>
          ELSE \E ok \in BOOLEAN :
                IF ~ok
                THEN \* the granule metadata cannot be fetched
                     /\ pc' = "failed"
                     /\ err' = "cat"
                     /\ UNCHANGED <<catalog, ci>>
                ELSE LET out == AddAssets(item, item.assets,
                                          GranuleMetadata(item.id))
                     IN /\ catalog' = [catalog EXCEPT ![i].assets = out.assets]
                        /\ IF out.ok
                           THEN /\ ci' = ci + 1
                                /\ UNCHANGED <<pc, err>>
                           ELSE /\ pc' = "failed"
                                /\ err' = "KeyError"
                                /\ UNCHANGED ci
    /\ UNCHANGED <<nb, items, index, ei, tiles, order, ti, tile_geometry,
                   queried, matches, rgi_region_path, local, tmpdir, raster,
                   remote, log, stored, saves>>
    /\ UNCHANGED shadowVars
    /\ UNCHANGED runVars

(***************************************************************************)
(* Saving the catalog                                                      *)
(***************************************************************************)

\* Mutant of LoopFinished: the save is made inside the loop.
LoopStarted == ci >= 1

\* The save cell follows the loop cell: it runs when the loop has visited
\* every item.
LoopFinished == ci = Len(LoopItems)

\* The root of the catalog on the storage.
CatalogUrl(n) ==
    "https://webdav.grid.surfsara.nl:2880/pnfs/grid.sara.nl"
        \o "/data/eratosthenes/disk/"
        \o (IF n = "relink" THEN "red-glacier_sentinel-2"
            ELSE "red-glacier_copernicushub-gcp")

\* The place of an item after normalize_hrefs:
\* <root>/<collection>/<item id>/<item id>.json
SelfHref(n, item) ==
    CatalogUrl(n) \o "/" \o item.collection \o "/" \o item.id
        \o "/" \o item.id \o ".json"

\* The position of the k-th "/" of a string at or after position i, or 0.
RECURSIVE NthSlash(_, _, _)
NthSlash(str, i, k) ==
    IF i > Len(str) THEN 0
    ELSE IF SubSeq(str, i, i) = "/"
    THEN IF k = 1 THEN i ELSE NthSlash(str, i + 1, k - 1)
    ELSE NthSlash(str, i + 1, k)

\* urlparse(href): scheme and netloc together, and the path.
Origin(href) ==
    LET k == NthSlash(href, 1, 3)
    IN IF k = 0 THEN href ELSE SubSeq(href, 1, k - 1)

UrlPath(href) ==
    LET k == NthSlash(href, 1, 3)
    IN IF k = 0 THEN "" ELSE SubSeq(href, k + 1, Len(href))

\* path.split("/")
RECURSIVE SplitPath(_)
SplitPath(path) ==
    LET k == NthSlash(path, 1, 1)
    IN IF k = 0 THEN <<path>>
       ELSE <<SubSeq(path, 1, k - 1)>>
                \o SplitPath(SubSeq(path, k + 1, Len(path)))

\* The number of leading parts two paths share.
RECURSIVE CommonParts(_, _)
CommonParts(a, b) ==
    IF Len(a) = 0 \/ Len(b) = 0 \/ a[1] # b[1] THEN 0
    ELSE 1 + CommonParts(Tail(a), Tail(b))

RECURSIVE JoinPath(_)
JoinPath(parts) ==
    IF Len(parts) = 0 THEN ""
    ELSE IF Len(parts) = 1 THEN parts[1]
    ELSE parts[1] \o "/" \o JoinPath(Tail(parts))

\* os.path.relpath(source path, directory of the start path), made to begin
\* with "./" when it does not begin with "../".
RelPath(source_href, start_href) ==
    LET src == SplitPath(UrlPath(source_href))
        start == SplitPath(UrlPath(start_href))
        dir == SubSeq(start, 1, Len(start) - 1)
        n == CommonParts(src, dir)
        up == [i \in 1..(Len(dir) - n) |-> ".."]
        rest == SubSeq(src, n + 1, Len(src))
    IN IF Len(up) = 0 THEN "./" \o JoinPath(rest)
       ELSE JoinPath(up \o rest)

\* Mutant of make_relative_href: every href is made relative, whatever its
\* scheme and host.
make_relative_href_any(source_href, start_href) ==
    RelPath(source_href, start_href)

\* pystac.utils.make_relative_href(source_href, start_href): an href with
\* another scheme or host than the start is returned as it is.
make_relative_href(source_href, start_href) ==
    IF Origin(source_href) # Origin(start_href) THEN source_href
    ELSE RelPath(source_href, start_href)

\* The catalog as a SELF_CONTAINED save leaves it: the asset hrefs of every
\* item made relative to the place of the item.
Normalized(n, cat) ==
    [i \in DOMAIN cat |->
        [cat[i] EXCEPT !.assets =
            [k \in DOMAIN cat[i].assets |->
                [cat[i].assets[k] EXCEPT !.href =
                    make_relative_href(@, SelfHref(n, cat[i]))]]]]

\* catalog.normalize_and_save(catalog_url, ...): the whole in-memory catalog
\* is written; when the storage fails on the way, the items written so far
\* are on the storage.
NormalizeAndSave ==
    /\ pc = "edit"
    /\ LoopFinished
    /\ saves' = saves + 1
    /\ catalog' = Normalized(nb, catalog)
    /\ \E ok \in BOOLEAN :
        IF ok
        THEN /\ stored' = catalog'
             /\ pc' = "done"
             /\ UNCHANGED err
        ELSE /\ \E k \in 0..Len(catalog) :
                /\ k < Len(catalog) \/ k = 0
                /\ stored' = [i \in DOMAIN catalog |->
                                IF i <= k THEN catalog'[i] ELSE stored[i]]
             /\ pc' = "failed"
             /\ err' = "save"
    /\ UNCHANGED <<nb, items, index, ei, tiles, order, ti, tile_geometry,
                   queried, matches, rgi_region_path, local, tmpdir, raster,
                   remote, log, ci>>
    /\ UNCHANGED shadowVars
    /\ UNCHANGED runVars

\* pystac.Catalog.from_file(f"{catalog_url}/catalog.json") and the reading of
\* its items, after the save: every item is as its file on the storage has
\* it.
RereadCatalog ==
    /\ pc = "done"
    /\ nb \in EditNotebooks
    /\ catalog' = [i \in DOMAIN stored |-> stored[i]]
    /\ pc' = "reread"
    /\ UNCHANGED <<nb, items, index, ei, tiles, order, ti, tile_geometry,
                   queried, matches, rgi_region_path, local, tmpdir, raster,
                   remote, log, err, stored, ci, saves>>
    /\ UNCHANGED shadowVars
    /\ UNCHANGED runVars

\* The loop of a catalog-editing notebook is run once more on the catalog
\* it has processed: either its cell is run again in the same session,
\* before the save, or the notebook is run again from its first cell, and
\* reads the catalog that was saved.
RunLoopAgain ==
    /\ nb \in EditNotebooks
    /\ pass < MaxRuns
    /\ \/ /\ pc = "edit"
          /\ LoopFinished
          /\ UNCHANGED <<items, pc, saves>>
       \/ /\ pc = "reread"
          /\ items' = catalog
          /\ pc' = "edit"
          /\ saves' = 0
    /\ pass' = pass + 1
    /\ first_run' = IF pass = 1 THEN catalog ELSE first_run
    /\ ci' = 0
    /\ UNCHANGED <<nb, index, ei, tiles, order, ti, tile_geometry, queried,
                   matches, rgi_region_path, local, tmpdir, raster, remote,
                   log, err, catalog, stored>>
    /\ UNCHANGED shadowVars

(***************************************************************************)
(* Specification of the catalog-editing notebooks                          *)
(***************************************************************************)

InitEdit ==
    /\ nb \in EditNotebooks
    /\ catalog \in Catalogs
    /\ items = catalog
    /\ stored = catalog
    /\ pc = "edit"
    /\ ci = 0
    /\ saves = 0
    /\ catalog_l2a = <<>>
    /\ out_items = <<>>
    /\ pass = 1
    /\ first_run = <<>>
    /\ err = None
    /\ index = None
    /\ ei = 0
    /\ tiles = <<>>
    /\ order = <<>>
    /\ ti = 0
    /\ tile_geometry = None
    /\ queried = None
    /\ matches = <<>>
    /\ rgi_region_path = None
    /\ local = {}
    /\ tmpdir = [live |-> {}, made |-> 0]
    /\ raster = None
    /\ remote = {}
    /\ log = <<>>

NextEdit ==
    \/ RelinkItem
    \/ AddSensorArrayAssets
    \/ NormalizeAndSave
    \/ RereadCatalog
    \/ RunLoopAgain

SpecEdit == InitEdit /\ [][NextEdit]_vars

(***************************************************************************)
(* Properties of the catalog-editing notebooks                             *)
(***************************************************************************)

\* C9: normalize_and_save is called at most once, and only when the loop has
\* processed every item; until then the stored catalog is the one that was
\* read, so a failure while an item is processed leaves it as it was; a run
\* that completes has written the whole in-memory catalog, once.
C9_SavedOnceAfterLoop ==
    /\ saves <= 1
    /\ saves = 1 => ci = Len(LoopItems)
    /\ saves = 0 => stored = items
    /\ pc = "failed" /\ err # "save" => saves = 0 /\ stored = items
    /\ pc = "done" => saves = 1 /\ stored = catalog

\* C9 witness: the loop failed at its second item after it had changed the
\* first one in memory; the stored catalog is still the one that was read.
C9_Witness ==
    /\ pc = "failed"
    /\ err = "KeyError"
    /\ ci = 1
    /\ catalog[LoopItems[1]] # items[LoopItems[1]]
    /\ stored = items
    /\ saves = 0

\* A number below 100 as two decimal digits.
TwoDigits(n) == ToString(n \div 10) \o ToString(n % 10)

\* The public URL of a file of a granule in the layout of the bucket:
\* <BASE_URL>/gcp-public-data-sentinel-2/tiles/<UTM_ZONE>/<LATITUDE_BAND>/
\* <GRID_SQUARE>/<GRANULE_ID>/<relative path>
Layout(properties, granule_id, path_rel) ==
    "http://storage.googleapis.com" \o "/gcp-public-data-sentinel-2"
        \o "/tiles" \o "/" \o TwoDigits(properties.utm_zone)
        \o "/" \o properties.latitude_band
        \o "/" \o properties.grid_square
        \o "/" \o granule_id \o "/" \o PathStr(path_rel)

\* The files of the granule an asset with key k can be linked to.
\*   relink:  the image of band k (the true-colour image for "overview")
\*   sensor:  the detector footprint of the band the key ends with
LinkedFiles(item, k) ==
    IF nb = "relink"
    THEN LET m == Manifest(item.properties.product_id)
         IN {m[j].fileLocation : j \in {j \in DOMAIN m :
                /\ IsImgData(m[j].ID)
                /\ LastPart(m[j].fileLocation)
                     = IF k = "overview" THEN "TCI" ELSE k}}
    ELSE LET m == GranuleMetadata(item.id)
         IN {m[j].text : j \in {j \in DOMAIN m :
                /\ m[j].type = "MSK_DETFOO"
                /\ k = "sensor-metadata-" \o LastPart(m[j].text)}}

\* The granule directory of an item in the bucket, as each notebook names
\* it.
GranuleId(item) ==
    IF nb = "relink" THEN item.properties.product_id \o ".SAFE" ELSE item.id

\* The assets of item i of the catalog whose URL a notebook has written.
Written(i) ==
    {k \in DOMAIN catalog[i].assets :
        \/ k \notin DOMAIN items[i].assets
        \/ catalog[i].assets[k].href # items[i].assets[k].href}

\* C13: every URL a notebook writes to an item is in the layout of the
\* bucket, with the tile of the item (zone in two digits, zero padded, one
\* letter of latitude band, two letters of grid square), the granule of the
\* item and the relative path of a file of that granule: it is determined
\* by the item and the relative path.
C13_UrlLayout ==
    \A i \in DOMAIN catalog :
        \A k \in Written(i) :
            \E path_rel \in LinkedFiles(items[i], k) :
                catalog[i].assets[k].href
                    = Layout(items[i].properties, GranuleId(items[i]),
                             path_rel)

\* C13 witness: the sensor-array loop has added assets to an item of a
\* tile of zone 5 and to an item of a tile of zone 32.
C13_Witness ==
    /\ nb = "sensor"
    /\ \E i, j \in DOMAIN catalog :
        /\ items[i].properties.utm_zone = 5
        /\ items[j].properties.utm_zone = 32
        /\ Written(i) # {}
        /\ Written(j) # {}

\* An asset but for its href.
NoHref(asset) == [asset EXCEPT !.href = ""]

\* C10: the link-fixup loop changes nothing but the href of assets an item
\* already has: the catalog keeps its items, every item its id, datetime,
\* geometry, properties, collection and asset keys, every asset all but its
\* href, and every item outside sentinel-s2-l1c is untouched.
C10_OnlyHrefsChange ==
    nb = "relink" =>
        /\ DOMAIN catalog = DOMAIN items
        /\ \A i \in DOMAIN catalog :
            /\ catalog[i].id = items[i].id
            /\ catalog[i].datetime = items[i].datetime
            /\ catalog[i].geometry = items[i].geometry
            /\ catalog[i].properties = items[i].properties
            /\ catalog[i].collection = items[i].collection
            /\ DOMAIN catalog[i].assets = DOMAIN items[i].assets
            /\ \A k \in DOMAIN items[i].assets :
                NoHref(catalog[i].assets[k]) = NoHref(items[i].assets[k])
            /\ items[i].collection # "sentinel-s2-l1c" =>
                catalog[i] = items[i]

\* C10 witness: the loop is over; it changed the hrefs of a level-1C item
\* whose manifest names a band the item has no asset for, and the catalog
\* also holds an item of another collection.
C10_Witness ==
    /\ nb = "relink"
    /\ pc = "edit"
    /\ ci = Len(LoopItems)
    /\ \E i, j \in DOMAIN catalog :
        /\ catalog[i].assets # items[i].assets
        /\ items[j].collection # "sentinel-s2-l1c"

BandUrls(item, band) ==
    LET m == Manifest(item.properties.product_id)
    IN {Layout(item.properties, item.properties.product_id \o ".SAFE",
               m[j].fileLocation) :
          j \in {j \in DOMAIN m : /\ IsImgData(m[j].ID)
                                  /\ LastPart(m[j].fileLocation) = band}}

\* C22: an item the link-fixup loop has processed has an "overview" asset
\* with the URL of the true-colour image of its manifest; every other asset
\* of it whose key is a band with an image in the manifest has the URL of
\* that image; every asset left has the href it was read with; and an item
\* the loop has not reached is as it was read.
C22_RelinkedHrefs ==
    nb = "relink" /\ pc \in {"edit", "failed"} =>
        /\ \A n \in 1..ci :
            LET i == LoopItems[n]
                assets == catalog[i].assets
            IN /\ "overview" \in DOMAIN assets
               /\ assets["overview"].href \in BandUrls(items[i], "TCI")
               /\ \A k \in DOMAIN assets \ {"overview"} :
                    IF BandUrls(items[i], k) # {}
                    THEN assets[k].href \in BandUrls(items[i], k)
                    ELSE assets[k].href = items[i].assets[k].href
        /\ \A n \in (ci + 2)..Len(LoopItems) :
            catalog[LoopItems[n]] = items[LoopItems[n]]

\* C22 witness: the loop has processed an item and given new hrefs to its
\* "overview" and "B02" assets, while its "metadata" asset, which the
\* manifest lists outside IMG_DATA, has the href it was read with.
C22_Witness ==
    /\ nb = "relink"
    /\ pc = "edit"
    /\ ci >= 1
    /\ LET i == LoopItems[1]
       IN /\ {"overview", "B02", "metadata"} \subseteq DOMAIN catalog[i].assets
          /\ catalog[i].assets["overview"].href
                # items[i].assets["overview"].href
          /\ catalog[i].assets["B02"].href # items[i].assets["B02"].href
          /\ catalog[i].assets["metadata"].href
                = items[i].assets["metadata"].href

\* The detector footprints the granule metadata of an item lists.
Footprints(item) ==
    LET m == GranuleMetadata(item.id)
    IN {m[j].text : j \in {j \in DOMAIN m : m[j].type = "MSK_DETFOO"}}

\* C23: an item add_sensor_array_metadata_as_assets has returned from has
\* the assets it was read with, each as it was read, and besides them one
\* asset for every detector footprint of its granule metadata and no
\* other: keyed "sensor-metadata-<band>", with the URL make_url gives for
\* the footprint and the role "metadata"; an item the loop has not reached
\* is as it was read.
C23_SensorAssets ==
    nb = "sensor" /\ pc \in {"edit", "failed"} =>
        /\ \A n \in 1..ci :
            LET i == LoopItems[n]
                old == items[i].assets
                new == catalog[i].assets
                added == {"sensor-metadata-" \o LastPart(f) :
                            f \in Footprints(items[i])}
            IN /\ DOMAIN new = DOMAIN old \cup added
               /\ \A k \in DOMAIN old : new[k] = old[k]
               /\ Cardinality(added) = Cardinality(Footprints(items[i]))
               /\ \A f \in Footprints(items[i]) :
                    LET k == "sensor-metadata-" \o LastPart(f)
                    IN /\ k \in DOMAIN new
                       /\ new[k].href = make_url(items[i], f)
                       /\ new[k].roles = <<"metadata">>
        /\ \A n \in (ci + 2)..Len(LoopItems) :
            catalog[LoopItems[n]] = items[LoopItems[n]]

\* C23 witness: the function has returned from an item whose granule
\* metadata lists two detector footprints and a cloud mask; the item has
\* two assets more, and its "granule-metadata" asset is as it was read.
C23_Witness ==
    /\ nb = "sensor"
    /\ pc = "edit"
    /\ ci >= 1
    /\ LET i == LoopItems[1]
       IN /\ pass = 1
          /\ Cardinality(DOMAIN catalog[i].assets)
                = Cardinality(DOMAIN items[i].assets) + 2
          /\ Len(GranuleMetadata(items[i].id)) = 3
          /\ catalog[i].assets["granule-metadata"]
                = items[i].assets["granule-metadata"]

\* The keys and hrefs of the assets of an item.
Hrefs(item) == [k \in DOMAIN item.assets |-> item.assets[k].href]

\* C26: while and after the loop of a catalog-editing notebook runs again
\* on the catalog it has processed, in the same session or on the catalog
\* read back from the storage, every item has the asset keys and hrefs the
\* first run left it with.
C26_Idempotent ==
    nb \in EditNotebooks /\ pass >= 2 =>
        /\ DOMAIN catalog = DOMAIN first_run
        /\ \A i \in DOMAIN catalog : Hrefs(catalog[i]) = Hrefs(first_run[i])

\* C26 witness: the sensor-array loop has run a second time, on the saved
\* catalog, over an item that had its sensor assets from the first run.
C26_Witness ==
    /\ nb = "sensor"
    /\ pass = 2
    /\ pc = "edit"
    /\ ci >= 1
    /\ saves = 0
    /\ stored = items
    /\ "sensor-metadata-B02" \in DOMAIN items[LoopItems[1]].assets

(***************************************************************************)
(* The shadow-catalog notebook: inputs                                     *)
(***************************************************************************)

\* shapely.wkt.loads(AOI_WKT): the area of interest, ten cells.
AOI == FromBounds(<<0, 0, 5, 2>>)

Date(y, m, d) == [year |-> y, month |-> m, day |-> d]

Scene(id, platform, mgrs_tile, date, geometry) ==
    [id |-> id, datetime |-> date, geometry |-> geometry,
     properties |-> [platform |-> platform, mgrs_tile |-> mgrs_tile]]

\* The scenes the L1C catalog is drawn from.  The first covers the whole
\* area of interest, the second seven cells of it, the third, of another
\* tile and the same date as the first, eight cells, the fourth none.
SceneKinds ==
    { Scene("S2A_MSIL1C_20210329T213529_T05VMG", "sentinel-2a",
            <<"0", "5", "V", "M", "G">>, Date(2021, 3, 29),
            FromBounds(<<0, 0, 6, 3>>)),
      Scene("S2B_MSIL1C_20210403T213529_T05VMG", "sentinel-2b",
            <<"0", "5", "V", "M", "G">>, Date(2021, 4, 3),
            FromBounds(<<0, 0, 3, 2>>) \cup {<<3, 0>>}),
      Scene("S2B_MSIL1C_20210329T213529_T05VMH", "sentinel-2b",
            <<"0", "5", "V", "M", "H">>, Date(2021, 3, 29),
            FromBounds(<<1, 0, 5, 3>>)),
      Scene("S2A_MSIL1C_20211110T213529_T05VMG", "sentinel-2a",
            <<"0", "5", "V", "M", "G">>, Date(2021, 11, 10),
            FromBounds(<<7, 0, 9, 2>>)) }

\* The items the L2A catalog is drawn from, with the platform, tile, date
\* and sequence number their ids are made of.
L2AKinds ==
    << [id |-> "S2A_5VMG_20210329_0_L2A", platform |-> "A", utm_zone |-> 5,
        cell |-> "VMG", datetime |-> Date(2021, 3, 29), sequence |-> 0],
       [id |-> "S2B_5VMH_20210329_1_L2A", platform |-> "B", utm_zone |-> 5,
        cell |-> "VMH", datetime |-> Date(2021, 3, 29), sequence |-> 1],
       [id |-> "S2B_5VMG_20210329_0_L2A", platform |-> "B", utm_zone |-> 5,
        cell |-> "VMG", datetime |-> Date(2021, 3, 29), sequence |-> 0],
       [id |-> "S2A_5VMG_20210403_0_L2A", platform |-> "A", utm_zone |-> 5,
        cell |-> "VMG", datetime |-> Date(2021, 4, 3), sequence |-> 0] >>

\* The L2A catalogs: any of these items, in catalog order.
L2ACatalogs ==
    {SelectSeq(L2AKinds, LAMBDA x : x.id \in keep) :
        keep \in SUBSET {L2AKinds[i].id : i \in DOMAIN L2AKinds}}

(***************************************************************************)
(* The shadow-catalog notebook: the loop over the L1C items                *)
(***************************************************************************)

\* Mutant of OverlapPasses: the comparison is >=.
OverlapAtLeast(geometry, aoi_geometry) ==
    100 * Cardinality(geometry) >= 70 * Cardinality(aoi_geometry)

\* (geometry.area / aoi_geometry.area) > 0.70
OverlapPasses(geometry, aoi_geometry) ==
    100 * Cardinality(geometry) > 70 * Cardinality(aoi_geometry)

\* datetime.strftime("S2_%Y-%m-%d")
OutputId(datetime) ==
    "S2_" \o ToString(datetime.year) \o "-" \o Format02d(datetime.month)
        \o "-" \o Format02d(datetime.day)

\* datetime.strftime("%Y%m%d")
Ymd(datetime) ==
    ToString(datetime.year) \o Format02d(datetime.month)
        \o Format02d(datetime.day)

\* properties["platform"][-1].capitalize()
PlatformLetter(platform) ==
    IF platform = "sentinel-2a" THEN "A"
    ELSE IF platform = "sentinel-2b" THEN "B"
    ELSE "?"

\* int(s) of a string of decimal digits, given as its characters.
DigitOf(c) ==
    CHOOSE d \in 0..9 : ToString(d) = c

RECURSIVE IntOf(_)
IntOf(chars) ==
    IF Len(chars) = 0 THEN 0
    ELSE 10 * IntOf(SubSeq(chars, 1, Len(chars) - 1))
            + DigitOf(chars[Len(chars)])

\* Mutant of L2AItemId: the zone keeps its leading zero.
L2AItemIdPadded(item_l1c) ==
    LET platform == PlatformLetter(item_l1c.properties.platform)
        mgrs_tile == item_l1c.properties.mgrs_tile
        date == Ymd(item_l1c.datetime)
    IN "S2" \o platform \o "_" \o StrJoin(mgrs_tile) \o "_"
        \o date \o "_0_L2A"

\* The id _get_l2a_item looks for:
\* f"S2{platform}_{utm_zone}{cell}_{date}_0_L2A"
L2AItemId(item_l1c) ==
    LET platform == PlatformLetter(item_l1c.properties.platform)
        mgrs_tile == item_l1c.properties.mgrs_tile
        utm_zone == IntOf(SubSeq(mgrs_tile, 1, 2))
        cell == Slice(mgrs_tile, 2, Len(mgrs_tile))
        date == Ymd(item_l1c.datetime)
    IN "S2" \o platform \o "_" \o ToString(utm_zone) \o cell \o "_"
        \o date \o "_0_L2A"

\* Python's None where an item is expected.
NoItem == [none |-> TRUE]

\* Catalog.get_item(id, recursive=True): the first item with the id, or
\* None.
get_item(cat, id) ==
    IF \E i \in DOMAIN cat : cat[i].id = id
    THEN cat[SetMin({i \in DOMAIN cat : cat[i].id = id})]
    ELSE NoItem

\* _get_l2a_item(item_l1c, catalog_l2a)
get_l2a_item(item_l1c, cat) == get_item(cat, L2AItemId(item_l1c))

\* pystac.Link(rel, target)
Link(rel, target) == [rel |-> rel, target |-> target.id]

\* Mutant of ItemLinks: the item-L2A link is added without the test.
ItemLinksAlways(item_l1c, item_l2a) ==
    << Link("item-L1C", item_l1c),
       [rel |-> "item-L2A",
        target |-> IF item_l2a = NoItem THEN None ELSE item_l2a.id] >>

\* item.add_link(pystac.Link("item-L1C", item_l1c))
\* if item_l2a is not None: item.add_link(pystac.Link("item-L2A", item_l2a))
ItemLinks(item_l1c, item_l2a) ==
    IF item_l2a = NoItem THEN << Link("item-L1C", item_l1c) >>
    ELSE << Link("item-L1C", item_l1c), Link("item-L2A", item_l2a) >>

\* The output item of an L1C item that passes the filter.
OutputItem(item_l1c, geometry, cat) ==
    [id |-> OutputId(item_l1c.datetime),
     geometry |-> geometry,
     bbox |-> Bounds(geometry),
     datetime |-> item_l1c.datetime,
     properties |-> <<>>,
     links |-> ItemLinks(item_l1c, get_l2a_item(item_l1c, cat))]

\* One iteration of `for item_l1c in catalog_l1c.get_all_items()`.  The
\* items of both catalogs are read from the storage when they are first
\* reached, which can fail.
ShadowItem ==
    /\ nb = "shadow"
    /\ pc = "shadow"
    /\ ci < Len(items)
    /\ \E ok \in BOOLEAN :
        IF ~ok
        THEN /\ pc' = "failed"
             /\ err' = "read"
             /\ UNCHANGED <<ci, out_items>>
        ELSE LET item_l1c == items[ci + 1]
                 geometry == item_l1c.geometry \cap AOI
             IN /\ out_items' =
                     IF OverlapPasses(geometry, AOI)
                     THEN Append(out_items,
                                 OutputItem(item_l1c, geometry, catalog_l2a))
                     ELSE out_items
                /\ ci' = ci + 1
                /\ UNCHANGED <<pc, err>>
    /\ UNCHANGED <<nb, items, index, ei, tiles, order, ti, tile_geometry,
                   queried, matches, rgi_region_path, local, tmpdir, raster,
                   remote, log, catalog, stored, saves, catalog_l2a>>
    /\ UNCHANGED runVars

(***************************************************************************)
(* The shadow-catalog notebook: saving the output catalog                  *)
(***************************************************************************)

\* The place of an item in the saved catalog: generate_subcatalogs with
\* CATALOG_OUT_TEMPLATE = "${year}/${month}/${day}", then normalize_hrefs.
ItemHref(item) ==
    ToString(item.datetime.year) \o "/" \o ToString(item.datetime.month)
        \o "/" \o ToString(item.datetime.day)
        \o "/" \o item.id \o "/" \o item.id \o ".json"

\* The files written when the first k output items are saved: each item is
\* written at its place, a later item over an earlier one at the same place.
SavedFiles(k) ==
    LET hrefs == {ItemHref(out_items[i]) : i \in 1..k}
    IN [h \in hrefs |->
          out_items[SetMax({i \in 1..k : ItemHref(out_items[i]) = h})]]

\* _save_catalog(items, CATALOG_OUT_URL, template=CATALOG_OUT_TEMPLATE, ...)
SaveShadowCatalog ==
    /\ nb = "shadow"
    /\ pc = "shadow"
    /\ ci = Len(items)
    /\ saves' = saves + 1
    /\ \E ok \in BOOLEAN :
        IF ok
        THEN /\ stored' = SavedFiles(Len(out_items))
             /\ pc' = "done"
             /\ UNCHANGED err
        ELSE /\ \E k \in 0..Len(out_items) :
                /\ k < Len(out_items) \/ k = 0
                /\ stored' = SavedFiles(k)
             /\ pc' = "failed"
             /\ err' = "save"
    /\ UNCHANGED <<nb, items, index, ei, tiles, order, ti, tile_geometry,
                   queried, matches, rgi_region_path, local, tmpdir, raster,
                   remote, log, catalog, ci, catalog_l2a, out_items>>
    /\ UNCHANGED runVars

(***************************************************************************)
(* Specification of the shadow-catalog notebook                            *)
(***************************************************************************)

InitShadow ==
    /\ nb = "shadow"
    /\ items \in InjSeqs(SceneKinds, MaxItems)
    /\ catalog_l2a \in L2ACatalogs
    /\ out_items = <<>>
    /\ pass = 1
    /\ first_run = <<>>
    /\ stored = <<>>
    /\ pc = "shadow"
    /\ ci = 0
    /\ saves = 0
    /\ err = None
    /\ catalog = <<>>
    /\ index = None
    /\ ei = 0
    /\ tiles = <<>>
    /\ order = <<>>
    /\ ti = 0
    /\ tile_geometry = None
    /\ queried = None
    /\ matches = <<>>
    /\ rgi_region_path = None
    /\ local = {}
    /\ tmpdir = [live |-> {}, made |-> 0]
    /\ raster = None
    /\ remote = {}
    /\ log = <<>>

NextShadow ==
    \/ ShadowItem
    \/ SaveShadowCatalog

SpecShadow == InitShadow /\ [][NextShadow]_vars

(***************************************************************************)
(* Properties of the shadow-catalog notebook                               *)
(***************************************************************************)

\* The output items built from the L1C item at position i of the catalog:
\* those whose item-L1C link leads to it.
BuiltFrom(i) ==
    {k \in DOMAIN out_items :
        \E l \in DOMAIN out_items[k].links :
            out_items[k].links[l]
                = [rel |-> "item-L1C", target |-> items[i].id]}

\* The number of cells of the area of interest that the footprint of a
\* scene covers.
CoveredCells(scene) == Cardinality({c \in AOI : c \in scene.geometry})

\* C14: a scene the loop has visited has an output item if and only if its
\* footprint covers strictly more than 70% of the area of interest, and
\* then exactly one, with the intersection as geometry; a scene covering
\* exactly 70%, less, or nothing has none; what is saved are output items.
C14_OverlapFilter ==
    nb = "shadow" =>
        /\ \A i \in 1..ci :
            IF 10 * CoveredCells(items[i]) > 7 * Cardinality(AOI)
            THEN /\ Cardinality(BuiltFrom(i)) = 1
                 /\ \A k \in BuiltFrom(i) :
                      out_items[k].geometry = items[i].geometry \cap AOI
            ELSE BuiltFrom(i) = {}
        /\ \A i \in (ci + 1)..Len(items) : BuiltFrom(i) = {}
        /\ \A k \in DOMAIN out_items : \E i \in 1..ci : k \in BuiltFrom(i)
        /\ \A h \in DOMAIN stored :
            \E k \in DOMAIN out_items : stored[h] = out_items[k]

\* C14 witness: the loop has visited a scene covering eight tenths of the
\* area of interest, one covering seven tenths and one that does not meet
\* it, and has one output item.
C14_Witness ==
    /\ nb = "shadow"
    /\ ci = 3
    /\ Len(out_items) = 1
    /\ {CoveredCells(items[i]) : i \in 1..3} = {0, 7, 8}
    /\ Cardinality(AOI) = 10

\* The links of an output item with a given relation.
LinksOf(item, rel) ==
    {l \in DOMAIN item.links : item.links[l].rel = rel}

\* An L2A item is that of a scene: same platform, same tile, same date,
\* first of its date.
Corresponds(scene, item_l2a) ==
    LET tile == scene.properties.mgrs_tile
    IN /\ scene.properties.platform
            = IF item_l2a.platform = "A" THEN "sentinel-2a"
              ELSE "sentinel-2b"
       /\ tile[1] \o tile[2] = TwoDigits(item_l2a.utm_zone)
       /\ tile[3] \o tile[4] \o tile[5] = item_l2a.cell
       /\ scene.datetime = item_l2a.datetime
       /\ item_l2a.sequence = 0

\* C15: every output item has exactly one item-L1C link, to the scene it
\* was built from (the scene of its date and geometry); it has an item-L2A
\* link exactly when the L2A catalog holds the item of that scene, and then
\* one, to that item; a scene that passes the filter has its output item
\* whether the L2A item is there or not, and the loop fails on no scene for
\* want of an L2A item.
C15_Links ==
    nb = "shadow" =>
        /\ \A k \in DOMAIN out_items :
            LET item == out_items[k]
            IN /\ Cardinality(LinksOf(item, "item-L1C")) = 1
               /\ \E i \in 1..ci :
                    /\ BuiltFrom(i) = {k}
                    /\ item.datetime = items[i].datetime
                    /\ item.geometry = items[i].geometry \cap AOI
                    /\ LET l2a == {j \in DOMAIN catalog_l2a :
                                    Corresponds(items[i], catalog_l2a[j])}
                       IN /\ LinksOf(item, "item-L2A") # {} <=> l2a # {}
                          /\ Cardinality(LinksOf(item, "item-L2A")) <= 1
                          /\ \A l \in LinksOf(item, "item-L2A") :
                               \E j \in l2a :
                                  item.links[l].target = catalog_l2a[j].id
               /\ \A l \in DOMAIN item.links :
                    item.links[l].rel \in {"item-L1C", "item-L2A"}
        /\ \A i \in 1..ci :
            10 * CoveredCells(items[i]) > 7 * Cardinality(AOI) =>
                BuiltFrom(i) # {}
        /\ pc = "shadow" => err = None
        /\ pc = "failed" /\ saves = 0 => err = "read"

\* C15 witness: the loop is over with two output items, one with the link
\* to its L2A item and one whose L2A item the catalog does not hold.
C15_Witness ==
    /\ nb = "shadow"
    /\ ci = Len(items)
    /\ \E k, m \in DOMAIN out_items :
        /\ LinksOf(out_items[k], "item-L2A") # {}
        /\ LinksOf(out_items[m], "item-L2A") = {}
        /\ LinksOf(out_items[m], "item-L1C") # {}

\* C24 (as claimed): the output items have ids that differ from each other,
\* and a save that went well has written one file for each of them.
C24_AsClaimed ==
    nb = "shadow" =>
        /\ \A i, j \in DOMAIN out_items :
            i # j => out_items[i].id # out_items[j].id
        /\ pc = "done" => Cardinality(DOMAIN stored) = Len(out_items)

\* The id of the L2A item of a scene in the naming of the L2A catalog:
\* S2<P>_<zone><cell>_<YYYYMMDD>_0_L2A.
NamedL2A(scene) ==
    LET tile == scene.properties.mgrs_tile
        P == IF scene.properties.platform = "sentinel-2a" THEN "A" ELSE "B"
        zone == IF tile[1] = "0" THEN tile[2] ELSE tile[1] \o tile[2]
        d == scene.datetime
    IN "S2" \o P \o "_" \o zone \o tile[3] \o tile[4] \o tile[5] \o "_"
        \o ToString(d.year) \o TwoDigits(d.month) \o TwoDigits(d.day)
        \o "_0_L2A"

\* C28: the item-L2A link of an output item, when it has one, leads to the
\* item of the L2A catalog with the id named after the platform, zone, cell
\* and date of the scene, an item of that very platform, tile and date;
\* and it has none exactly when the catalog holds no item of that id,
\* whatever other items of the tile or the date it holds.
C28_PairedById ==
    nb = "shadow" =>
        \A i \in 1..ci : \A k \in BuiltFrom(i) :
            LET item == out_items[k]
                named == {j \in DOMAIN catalog_l2a :
                            catalog_l2a[j].id = NamedL2A(items[i])}
            IN /\ LinksOf(item, "item-L2A") = {} <=> named = {}
               /\ \A l \in LinksOf(item, "item-L2A") :
                    /\ item.links[l].target = NamedL2A(items[i])
                    /\ \A j \in DOMAIN catalog_l2a :
                        catalog_l2a[j].id = item.links[l].target =>
                            /\ "sentinel-2" \o
                                 (IF catalog_l2a[j].platform = "A" THEN "a"
                                  ELSE "b")
                                    = items[i].properties.platform
                            /\ TwoDigits(catalog_l2a[j].utm_zone)
                                    \o catalog_l2a[j].cell
                                    = StrJoin(items[i].properties.mgrs_tile)
                            /\ catalog_l2a[j].datetime = items[i].datetime

\* C28 witness: a scene of platform A is paired with its L2A item while the
\* catalog also holds the item of platform B of the same tile and date,
\* and a scene whose only L2A item has sequence number 1 is paired with
\* none.
C28_Witness ==
    /\ nb = "shadow"
    /\ \E j, m \in DOMAIN catalog_l2a :
        /\ catalog_l2a[j].id = "S2B_5VMG_20210329_0_L2A"
        /\ catalog_l2a[m].id = "S2B_5VMH_20210329_1_L2A"
    /\ \E k, n \in DOMAIN out_items :
        /\ \E l \in LinksOf(out_items[k], "item-L2A") :
            out_items[k].links[l].target = "S2A_5VMG_20210329_0_L2A"
        /\ LinksOf(out_items[n], "item-L2A") = {}
        /\ \E l \in LinksOf(out_items[n], "item-L1C") :
            out_items[n].links[l].target
                = "S2B_MSIL1C_20210329T213529_T05VMH"

====
